---- MODULE Spec2Model ----
(*************************************************************************)
(* Waste incident platform: the AI service (singleton encoder handle,    *)
(* hybrid waste classification, keyword extraction, similar-incident     *)
(* search), the analytics service (trend classification over two         *)
(* periods, daily spikes, location anomalies) and the incident requests  *)
(* (create, update, delete) with their database sessions.                *)
(*                                                                       *)
(* Numbers.  Confidences and similarities are Python floats.  They are   *)
(* modelled exactly as integer multiples of 1/One, where One is chosen   *)
(* so that every intermediate value of the classifier (k/len(keywords),  *)
(* its product with 0.2 or 2, a similarity given in thousandths and its  *)
(* product with 0.3) is an integer.  Values returned after round(x, 2)   *)
(* are integers counting hundredths.                                     *)
(*************************************************************************)
EXTENDS Integers, Sequences, FiniteSets, TLC

VARIABLES
    model,                \* self.model is not None
    stopwords,            \* self.stopwords holds the English stopword list
    category_embeddings,  \* keys of self.category_embeddings
    initialized,          \* AIService._initialized
    init_called,          \* history: initialize has been called at least once
    incidents,            \* rows of the incidents table, in fetch order
    created,              \* number of incident ids handed out so far
    call,                 \* the last call and its inputs
    result                \* what the last call returned or raised

vars ==
    <<model, stopwords, category_embeddings, initialized, init_called,
      incidents, created, call, result>>

\* The fields of the service object that its methods read
Self ==
    [model |-> model, stopwords |-> stopwords,
     category_embeddings |-> category_embeddings]

--------------------------------------------------------------------------
(* Fixed-point unit and rounding                                          *)

One == 16 * 9 * 625 * 11 * 13

Milli(x) == x * (One \div 1000)

Min(a, b) == IF a <= b THEN a ELSE b

Abs(a) == IF a < 0 THEN 0 - a ELSE a

\* round(x, 2): nearest hundredth, an exact tie going to the even one.
Round2(x) ==
    LET unit == One \div 100
        q == x \div unit
        r == x % unit
    IN  IF 2 * r < unit THEN q
        ELSE IF 2 * r > unit THEN q + 1
        ELSE IF q % 2 = 0 THEN q ELSE q + 1

--------------------------------------------------------------------------
(* Category corpus                                                        *)

\* Key order of WASTE_CATEGORY_DESCRIPTIONS and of WASTE_CATEGORIES.
CategoryOrder ==
    <<"plastic", "organic", "paper", "glass", "metal", "electronic",
      "hazardous", "textile", "construction", "mixed">>

Categories == {CategoryOrder[i] : i \in 1..Len(CategoryOrder)}

WASTE_CATEGORIES ==
    [plastic |-> <<"plastic", "bottle", "bag", "packaging", "container",
          "wrapper", "polythene", "polyethylene", "pet", "hdpe", "pvc",
          "straw", "cup", "lid", "film">>,
     organic |-> <<"food", "organic", "kitchen", "vegetable", "fruit",
          "compost", "biodegradable", "garden", "plant", "waste", "banana",
          "apple", "leftover", "spoiled", "rotten">>,
     paper |-> <<"paper", "cardboard", "newspaper", "magazine", "box",
          "carton", "tissue", "document", "book", "notebook", "envelope">>,
     glass |-> <<"glass", "bottle", "jar", "window", "broken glass",
          "mirror", "wine bottle", "beer bottle", "glassware">>,
     metal |-> <<"metal", "can", "aluminum", "steel", "tin", "iron",
          "copper", "foil", "wire", "scrap metal", "battery">>,
     electronic |-> <<"electronic", "e-waste", "computer", "phone",
          "mobile", "laptop", "television", "tv", "monitor", "cable",
          "charger", "battery", "appliance", "device", "gadget">>,
     hazardous |-> <<"chemical", "hazardous", "toxic", "paint", "oil",
          "solvent", "battery", "pesticide", "medicine", "pharmaceutical",
          "dangerous", "flammable", "corrosive">>,
     textile |-> <<"clothing", "fabric", "textile", "cloth", "clothes",
          "shirt", "pants", "dress", "shoes", "leather", "rag">>,
     construction |-> <<"construction", "demolition", "concrete", "brick",
          "wood", "debris", "rubble", "tile", "drywall", "lumber">>,
     mixed |-> <<"mixed", "general", "household", "municipal", "various",
          "assorted", "multiple", "diverse">>]

--------------------------------------------------------------------------
(* String helpers: str.lower(), `in`, len(str.split())                    *)

LowerChar(c) ==
    CASE c = "A" -> "a" [] c = "B" -> "b" [] c = "C" -> "c" [] c = "D" -> "d"
      [] c = "E" -> "e" [] c = "F" -> "f" [] c = "G" -> "g" [] c = "H" -> "h"
      [] c = "I" -> "i" [] c = "J" -> "j" [] c = "K" -> "k" [] c = "L" -> "l"
      [] c = "M" -> "m" [] c = "N" -> "n" [] c = "O" -> "o" [] c = "P" -> "p"
      [] c = "Q" -> "q" [] c = "R" -> "r" [] c = "S" -> "s" [] c = "T" -> "t"
      [] c = "U" -> "u" [] c = "V" -> "v" [] c = "W" -> "w" [] c = "X" -> "x"
      [] c = "Y" -> "y" [] c = "Z" -> "z" [] OTHER -> c

\* The characters i..j of s in lower case, by halves
RECURSIVE LowerFrom(_, _, _)
LowerFrom(s, i, j) ==
    IF i > j THEN ""
    ELSE IF i = j THEN LowerChar(SubSeq(s, i, i))
    ELSE LowerFrom(s, i, (i + j) \div 2)
            \o LowerFrom(s, (i + j) \div 2 + 1, j)

Lower(s) == LowerFrom(s, 1, Len(s))

\* keyword in description_lower
Contains(keyword, text) ==
    \E i \in 1..(Len(text) - Len(keyword) + 1) :
        SubSeq(text, i, i + Len(keyword) - 1) = keyword

\* len(keyword.split()): the number of maximal runs of non-blank characters
WordCount(keyword) ==
    Cardinality({i \in 1..Len(keyword) :
        /\ SubSeq(keyword, i, i) # " "
        /\ (i = 1 \/ SubSeq(keyword, i - 1, i - 1) = " ")})

--------------------------------------------------------------------------
(* Keyword scoring (classify_waste_type stage 2, _classify_by_keywords_only) *)

Pos(category) == CHOOSE i \in 1..Len(CategoryOrder) : CategoryOrder[i] = category

\* The inner loop over one category's keywords: <<score, matches>> after
\* the first n keywords.
RECURSIVE KeywordLoop(_, _, _)
KeywordLoop(keywords, description_lower, n) ==
    IF n = 0 THEN <<0, 0>>
    ELSE LET acc == KeywordLoop(keywords, description_lower, n - 1)
         IN  IF Contains(keywords[n], description_lower)
             THEN <<acc[1] + WordCount(keywords[n]), acc[2] + 1>>
             ELSE acc

\* keyword_scores: category -> score / len(keywords), only for matches > 0
keyword_scores(description) ==
    LET description_lower == Lower(description)
        loop == [c \in Categories |->
                    KeywordLoop(WASTE_CATEGORIES[c], description_lower,
                                Len(WASTE_CATEGORIES[c]))]
    IN  [c \in {d \in Categories : loop[d][2] > 0} |->
            (loop[c][1] * One) \div Len(WASTE_CATEGORIES[c])]

\* max(d.items(), key=lambda x: x[1]): the first key, in dict order, that
\* carries the largest value.
MaxItem(d) ==
    CHOOSE c \in DOMAIN d :
        \A e \in DOMAIN d :
            /\ d[e] <= d[c]
            /\ (Pos(e) < Pos(c) => d[e] < d[c])

Returned(category, confidence) ==
    [kind |-> "returned", category |-> category, confidence |-> confidence]

Raised(error) ==
    [kind |-> error, category |-> "", confidence |-> 0]

\* Variant without the cap at 1.0.
classify_by_keywords_only_NoCap(description) ==
    LET scores == keyword_scores(description)
    IN  IF DOMAIN scores = {} THEN Returned("unclassified", 0)
        ELSE LET best_category == MaxItem(scores)
             IN  Returned(best_category, Round2(scores[best_category] * 2))

classify_by_keywords_only(description) ==
    LET scores == keyword_scores(description)
    IN  IF DOMAIN scores = {} THEN Returned("unclassified", 0)
        ELSE LET best_category == MaxItem(scores)
                 max_score == scores[best_category]
                 confidence == Min(max_score * 2, One)
             IN  Returned(best_category, Round2(confidence))

--------------------------------------------------------------------------
(* classify_waste_type                                                    *)

SEMANTIC_TRUST == 500

\* Variant boosting by the best keyword score of any category.
SemanticPrimary_BestKeywordBoost(semantic_category, semantic_confidence, kw) ==
    LET keyword_boost ==
            IF DOMAIN kw # {} THEN kw[MaxItem(kw)] \div 5 ELSE 0
    IN  Min(semantic_confidence + keyword_boost, One)

\* final_confidence of the "semantic primary" branch
SemanticPrimary(semantic_category, semantic_confidence, kw) ==
    LET keyword_boost ==
            IF semantic_category \in DOMAIN kw
            THEN kw[semantic_category] \div 5 ELSE 0
    IN  Min(semantic_confidence + keyword_boost, One)

\* Variant adding the semantic boost whether or not the categories agree.
KeywordPrimary_AlwaysBoost(semantic_category, semantic_confidence, keyword_category, kw) ==
    LET keyword_confidence == Min(kw[keyword_category] * 2, One)
    IN  Min(keyword_confidence + (semantic_confidence * 3) \div 10, One)

\* final_confidence of the "keyword primary" branch
KeywordPrimary(semantic_category, semantic_confidence, keyword_category, kw) ==
    LET keyword_confidence == Min(kw[keyword_category] * 2, One)
    IN  IF semantic_category = keyword_category
        THEN Min(keyword_confidence + (semantic_confidence * 3) \div 10, One)
        ELSE keyword_confidence

\* Variant answering from the keywords when the service is not initialised.
classify_waste_type_NoGuard(self, description, enc) ==
    classify_by_keywords_only(description)

\* self: the fields of the service object at the time of the call.
\* enc: what self.model.encode and the cosine similarities produce for this
\* call: [ok |-> FALSE] when the encoder raises, else the similarity of the
\* text to every category's reference description.
classify_waste_type(self, description, enc) ==
    IF ~self.model \/ self.category_embeddings = {}
    THEN Raised("RuntimeError")
    ELSE IF ~enc.ok
    THEN classify_by_keywords_only(description)
    ELSE LET semantic_scores ==
                 [c \in self.category_embeddings |-> enc.scores[c]]
             semantic_category == MaxItem(semantic_scores)
             semantic_confidence == semantic_scores[semantic_category]
             kw == keyword_scores(description)
         IN  IF semantic_confidence >= Milli(SEMANTIC_TRUST)
             THEN Returned(semantic_category,
                    Round2(SemanticPrimary(semantic_category,
                                           semantic_confidence, kw)))
             ELSE IF DOMAIN kw # {}
             THEN LET keyword_category == MaxItem(kw)
                  IN  Returned(keyword_category,
                        Round2(KeywordPrimary(semantic_category,
                                 semantic_confidence, keyword_category, kw)))
             ELSE Returned(semantic_category, Round2(semantic_confidence))

\* generate_embedding: the not-initialised guard, then the encoder; an
\* encoder failure is logged and re-raised.
generate_embedding(self, text, encoder_ok) ==
    IF ~self.model THEN Raised("RuntimeError")
    ELSE IF ~encoder_ok THEN Raised("EncoderError")
    ELSE [kind |-> "returned", category |-> "", confidence |-> 0]

--------------------------------------------------------------------------
(* AIService.extract_keywords                                             *)
(*                                                                        *)
(* word_tokenize is modelled on texts of letters, digits, hyphens, blanks *)
(* and the punctuation marks below: a blank separates tokens, a           *)
(* punctuation mark is a token of its own, every other run of characters  *)
(* (a word, a number, a hyphenated word) is one token.                    *)

Letters ==
    {"a", "b", "c", "d", "e", "f", "g", "h", "i", "j", "k", "l", "m",
     "n", "o", "p", "q", "r", "s", "t", "u", "v", "w", "x", "y", "z"}

Punctuation == {",", ".", "!", "?", ":", ";"}

\* stopwords.words('english')
ENGLISH_STOPWORDS ==
    {"i", "me", "my", "myself", "we", "our", "ours", "ourselves", "you",
     "you're", "you've", "you'll", "you'd", "your", "yours", "yourself",
     "yourselves", "he", "him", "his", "himself", "she", "she's", "her",
     "hers", "herself", "it", "it's", "its", "itself", "they", "them",
     "their", "theirs", "themselves", "what", "which", "who", "whom",
     "this", "that", "that'll", "these", "those", "am", "is", "are", "was",
     "were", "be", "been", "being", "have", "has", "had", "having", "do",
     "does", "did", "doing", "a", "an", "the", "and", "but", "if", "or",
     "because", "as", "until", "while", "of", "at", "by", "for", "with",
     "about", "against", "between", "into", "through", "during", "before",
     "after", "above", "below", "to", "from", "up", "down", "in", "out",
     "on", "off", "over", "under", "again", "further", "then", "once",
     "here", "there", "when", "where", "why", "how", "all", "any", "both",
     "each", "few", "more", "most", "other", "some", "such", "no", "nor",
     "not", "only", "own", "same", "so", "than", "too", "very", "s", "t",
     "can", "will", "just", "don", "don't", "should", "should've", "now",
     "d", "ll", "m", "o", "re", "ve", "y", "ain", "aren", "aren't",
     "couldn", "couldn't", "didn", "didn't", "doesn", "doesn't", "hadn",
     "hadn't", "hasn", "hasn't", "haven", "haven't", "isn", "isn't", "ma",
     "mightn", "mightn't", "mustn", "mustn't", "needn", "needn't", "shan",
     "shan't", "shouldn", "shouldn't", "wasn", "wasn't", "weren",
     "weren't", "won", "won't", "wouldn", "wouldn't"}

\* The tokens of s from position i on, current being the token in progress
RECURSIVE TokensFrom(_, _, _)
TokensFrom(s, i, current) ==
    LET done == IF current = "" THEN <<>> ELSE <<current>>
    IN  IF i > Len(s) THEN done
        ELSE LET c == SubSeq(s, i, i)
             IN  IF c = " " THEN done \o TokensFrom(s, i + 1, "")
                 ELSE IF c \in Punctuation
                 THEN done \o <<c>> \o TokensFrom(s, i + 1, "")
                 ELSE TokensFrom(s, i + 1, current \o c)

word_tokenize(text) == TokensFrom(text, 1, "")

\* word.isalpha(), for a lower-cased word
IsAlpha(word) ==
    /\ Len(word) > 0
    /\ \A i \in 1..Len(word) : SubSeq(word, i, i) \in Letters

KeepToken_LongerThanOne(self, word) ==
    /\ IsAlpha(word)
    /\ ~(self.stopwords /\ word \in ENGLISH_STOPWORDS)
    /\ Len(word) > 1

\* word.isalpha() and word not in self.stopwords and len(word) > 2;
\* self.stopwords is empty until initialize has loaded the list
KeepToken(self, word) ==
    /\ IsAlpha(word)
    /\ ~(self.stopwords /\ word \in ENGLISH_STOPWORDS)
    /\ Len(word) > 2

\* word_freq: one [word, freq] per distinct word, in first-seen order
RECURSIVE WordFreq(_)
WordFreq(keywords) ==
    IF keywords = <<>> THEN <<>>
    ELSE LET n == Len(keywords)
             before == WordFreq(SubSeq(keywords, 1, n - 1))
             word == keywords[n]
         IN  IF \E i \in 1..Len(before) : before[i].word = word
             THEN [i \in 1..Len(before) |->
                     IF before[i].word = word
                     THEN [word |-> word, freq |-> before[i].freq + 1]
                     ELSE before[i]]
             ELSE before \o <<[word |-> word, freq |-> 1]>>

\* Insert x behind every item whose frequency is not smaller
RECURSIVE InsertByFrequency(_, _)
InsertByFrequency(sorted, x) ==
    IF sorted = <<>> THEN <<x>>
    ELSE IF x.freq > Head(sorted).freq
         THEN <<x>> \o sorted
         ELSE <<Head(sorted)>> \o InsertByFrequency(Tail(sorted), x)

\* sorted ascending, then reversed
RECURSIVE SortByFrequency_Reversed(_)
SortByFrequency_Reversed(items) ==
    IF items = <<>> THEN <<>>
    ELSE LET n == Len(items)
             rest == SortByFrequency_Reversed(SubSeq(items, 1, n - 1))
             x == items[n]
             before == SelectSeq(rest, LAMBDA y : y.freq > x.freq)
             after == SelectSeq(rest, LAMBDA y : y.freq <= x.freq)
         IN  before \o <<x>> \o after

\* sorted(word_freq.items(), key=freq, reverse=True): stable
RECURSIVE SortByFrequency(_)
SortByFrequency(items) ==
    IF items = <<>> THEN <<>>
    ELSE LET n == Len(items)
         IN  InsertByFrequency(SortByFrequency(SubSeq(items, 1, n - 1)),
                               items[n])

\* tokenizer_ok: word_tokenize finds its punkt data; when it raises, the
\* exception is logged and the result is the empty list.
extract_keywords(self, description, top_n, tokenizer_ok) ==
    IF ~tokenizer_ok THEN <<>>
    ELSE LET tokens == word_tokenize(Lower(description))
             keywords == SelectSeq(tokens, LAMBDA word : KeepToken(self, word))
             sorted_keywords == SortByFrequency(WordFreq(keywords))
             top == SubSeq(sorted_keywords, 1, Min(top_n, Len(sorted_keywords)))
         IN  [i \in 1..Len(top) |-> top[i].word]

--------------------------------------------------------------------------
(* State after `AIService()` has been constructed (ai/service.py __init__) *)

NoCall == [op |-> "none"]

Init ==
    /\ model = FALSE
    /\ stopwords = FALSE
    /\ category_embeddings = {}
    /\ initialized = FALSE
    /\ init_called = FALSE
    /\ incidents = <<>>
    /\ created = 0
    /\ call = NoCall
    /\ result = Raised("none")

--------------------------------------------------------------------------
(* Inputs of the AI service                                               *)

Texts ==
    {"Plastic bottle dumped", "broken glass near school",
     "Old carpet in garage", "Dead battery leaking",
     "mixed general household municipal", "Strange smell here",
     "WINE BOTTLE, beer bottle, broken glass", "Paper and metal junk"}

\* Texts whose keywords are extracted
KeywordTexts ==
    {"", "The bottle and the Bottle bag",
     "bag glass glass bottle bottle tin",
     "E-waste: 3 old TV sets and a PC!",
     "Oil, oil, oil. Tar tar? Mud;"}

MaxTopN == 3

\* Cosine similarities, in thousandths
SimValues == {0 - 600, 300, 499, 500, 950}

\* Encoder outcomes: the encoder raises, or every category's reference
\* description is at similarity lo to the text except one that is at hi.
Encodings ==
    {[ok |-> FALSE, scores |-> [c \in Categories |-> 0]]} \cup
    {[ok |-> TRUE,
      scores |-> [c \in Categories |->
                    IF c = p[1] THEN Milli(p[2]) ELSE Milli(p[3])]] :
        p \in {q \in Categories \X SimValues \X SimValues : q[3] <= q[2]}}

\* Where initialize stops: it raises while loading the stopwords, while
\* loading the model, after encoding the first n reference descriptions,
\* or it runs to the end.
InitOutcomes ==
    {[stage |-> "stopwords", n |-> 0], [stage |-> "model", n |-> 0],
     [stage |-> "done", n |-> Len(CategoryOrder)]} \cup
    {[stage |-> "embeddings", n |-> n] : n \in 0..(Len(CategoryOrder) - 1)}

--------------------------------------------------------------------------
(* Operations of the AI service                                           *)

\* A request is served only when no other one is being served: the handlers
\* of the AI service are synchronous or contain no await before they return.
Idle == call = NoCall

initialize(outcome) ==
    /\ Idle
    /\ init_called' = TRUE
    /\ call' = [op |-> "initialize", outcome |-> outcome]
    /\ IF initialized
       THEN /\ result' = Returned("", 0)
            /\ UNCHANGED <<model, stopwords, category_embeddings, initialized>>
       ELSE /\ stopwords' = (stopwords \/ outcome.stage # "stopwords")
            /\ model' = (model \/ outcome.stage \in {"embeddings", "done"})
            /\ category_embeddings' =
                 category_embeddings \cup
                 {CategoryOrder[i] : i \in 1..outcome.n}
            /\ initialized' = (outcome.stage = "done")
            /\ result' = IF outcome.stage = "done"
                         THEN Returned("", 0) ELSE Raised("InitError")
    /\ UNCHANGED <<incidents, created>>

ClassifyWasteType(description, enc) ==
    /\ Idle
    /\ call' = [op |-> "classify_waste_type", description |-> description,
                enc |-> enc]
    /\ result' = classify_waste_type(Self, description, enc)
    /\ UNCHANGED <<model, stopwords, category_embeddings, initialized,
                   init_called, incidents, created>>

GenerateEmbedding(text, encoder_ok) ==
    /\ Idle
    /\ call' = [op |-> "generate_embedding", description |-> text,
                encoder_ok |-> encoder_ok]
    /\ result' = generate_embedding(Self, text, encoder_ok)
    /\ UNCHANGED <<model, stopwords, category_embeddings, initialized,
                   init_called, incidents, created>>

ExtractKeywords(text, top_n, tokenizer_ok) ==
    /\ Idle
    /\ call' = [op |-> "extract_keywords", description |-> text,
                top_n |-> top_n, tokenizer_ok |-> tokenizer_ok]
    /\ result' = [kind |-> "returned",
                  keywords |-> extract_keywords(Self, text, top_n,
                                                tokenizer_ok)]
    /\ UNCHANGED <<model, stopwords, category_embeddings, initialized,
                   init_called, incidents, created>>

\* Variant of __init__ that sets the fields on every construction.
AIService_init_Reset(self) ==
    [model |-> FALSE, stopwords |-> FALSE, category_embeddings |-> {}]

\* AIService.__init__ on the singleton __new__ returns: the fields are set
\* only `if not hasattr(self, 'model')`, and the instance has had the
\* attribute since its first construction
AIService_init(self) == self

\* AIService(): a route or the seeder constructs the service again
Construct ==
    /\ Idle
    /\ call' = [op |-> "AIService"]
    /\ result' = Returned("", 0)
    /\ model' = AIService_init(Self).model
    /\ stopwords' = AIService_init(Self).stopwords
    /\ category_embeddings' = AIService_init(Self).category_embeddings
    /\ UNCHANGED <<initialized, init_called, incidents, created>>

\* The caller has taken the result; the service is ready for the next call.
Respond ==
    /\ ~Idle
    /\ call' = NoCall
    /\ result' = Raised("none")
    /\ UNCHANGED <<model, stopwords, category_embeddings, initialized,
                   init_called, incidents, created>>

Next ==
    \/ Respond
    \/ Construct
    \/ \E outcome \in InitOutcomes : initialize(outcome)
    \/ \E description \in Texts, enc \in Encodings :
          ClassifyWasteType(description, enc)
    \/ \E text \in Texts, encoder_ok \in BOOLEAN :
          GenerateEmbedding(text, encoder_ok)
    \/ \E text \in KeywordTexts, top_n \in 1..MaxTopN, tokenizer_ok \in BOOLEAN :
          ExtractKeywords(text, top_n, tokenizer_ok)

Spec == Init /\ [][Next]_vars

--------------------------------------------------------------------------
(* find_similar_incidents                                                 *)
(*                                                                        *)
(* A row of the incidents table is [id, embedding]; the embedding column  *)
(* is NULL or a vector of the column's dimension.  Vectors are short      *)
(* integer tuples.  Cosine similarities are only compared with one        *)
(* another and with the threshold, so they are represented by the         *)
(* fraction sign(a.b) * (a.b)^2 / (|a|^2 |b|^2), which orders pairs of    *)
(* vectors exactly as the cosine does.                                    *)

\* Optional values (a nullable column, an omitted argument)
None == <<>>

Some(x) == <<x>>

Value(opt) == opt[1]

\* settings.SIMILARITY_THRESHOLD, in hundredths
SIMILARITY_THRESHOLD == 75

RECURSIVE DotFrom(_, _, _)
DotFrom(a, b, i) ==
    IF i > Len(a) THEN 0 ELSE a[i] * b[i] + DotFrom(a, b, i + 1)

Dot(a, b) == DotFrom(a, b, 1)

\* cosine_similarity(a, b) as <<numerator, denominator>> of the signed
\* square; a zero vector has similarity 0 to everything.
CosSq(a, b) ==
    LET d == Dot(a, b)
        n == Dot(a, a) * Dot(b, b)
    IN  IF n = 0 THEN <<0, 1>>
        ELSE <<(IF d < 0 THEN 0 - d * d ELSE d * d), n>>

\* similarity >= threshold, threshold in hundredths and not negative
AtLeast(sim, threshold) ==
    sim[1] * 10000 >= threshold * threshold * sim[2]

\* sim1 > sim2
Greater(sim1, sim2) == sim1[1] * sim2[2] > sim2[1] * sim1[2]

\* select(Incident).where(id != current_incident_id, embedding IS NOT NULL)
FetchCandidates_IncludeCurrent(rows, current_incident_id) ==
    SelectSeq(rows, LAMBDA r : r.embedding # None)

FetchCandidates(rows, current_incident_id) ==
    SelectSeq(rows, LAMBDA r : r.id # current_incident_id /\ r.embedding # None)

\* list.sort(key=similarity, reverse=True): stable, equal keys keep their
\* order.  Insert x behind every element that is not smaller.
RECURSIVE InsertDesc(_, _)
InsertDesc(sorted, x) ==
    IF sorted = <<>> THEN <<x>>
    ELSE IF Greater(x.sim, Head(sorted).sim)
         THEN <<x>> \o sorted
         ELSE <<Head(sorted)>> \o InsertDesc(Tail(sorted), x)

RECURSIVE SortBySimilarity_Ascending(_)
SortBySimilarity_Ascending(similarities) ==
    IF similarities = <<>> THEN <<>>
    ELSE LET n == Len(similarities)
             rest == SortBySimilarity_Ascending(SubSeq(similarities, 1, n - 1))
             x == similarities[n]
             before == SelectSeq(rest, LAMBDA y : ~Greater(y.sim, x.sim))
             after == SelectSeq(rest, LAMBDA y : Greater(y.sim, x.sim))
         IN  before \o <<x>> \o after

RECURSIVE SortBySimilarity(_)
SortBySimilarity(similarities) ==
    IF similarities = <<>> THEN <<>>
    ELSE LET n == Len(similarities)
         IN  InsertDesc(SortBySimilarity(SubSeq(similarities, 1, n - 1)),
                        similarities[n])

Found(ids, failed) == [kind |-> "returned", ids |-> ids, failed |-> failed]

\* Variant letting the exception escape to the caller.
CaughtFailure_Reraise == [kind |-> "Exception", ids |-> <<>>, failed |-> TRUE]

\* except Exception: log the error, return []
CaughtFailure == Found(<<>>, TRUE)

\* fetch_ok: db.execute returns; otherwise it raises inside the try block.
find_similar_incidents(rows, current_incident_id, embedding, threshold, limit, fetch_ok) ==
    LET th == IF threshold = None THEN SIMILARITY_THRESHOLD
              ELSE Value(threshold)
        all_incidents == FetchCandidates(rows, current_incident_id)
        \* incident.embedding is not None and len(incident.embedding) > 0
        usable == SelectSeq(all_incidents,
                    LAMBDA r : r.embedding # None /\ Value(r.embedding) # <<>>)
    IN  IF ~fetch_ok THEN CaughtFailure
        ELSE IF all_incidents = <<>> THEN Found(<<>>, FALSE)
        ELSE IF \E i \in 1..Len(usable) :
                   Len(Value(usable[i].embedding)) # Len(embedding)
        THEN CaughtFailure
        ELSE LET scored == [i \in 1..Len(usable) |->
                    [id |-> usable[i].id,
                     sim |-> CosSq(embedding, Value(usable[i].embedding))]]
                 similarities ==
                    SelectSeq(scored, LAMBDA x : AtLeast(x.sim, th))
                 sorted == SortBySimilarity(similarities)
                 top == SubSeq(sorted, 1, Min(limit, Len(sorted)))
             IN  Found([i \in 1..Len(top) |-> top[i].id], FALSE)

--------------------------------------------------------------------------
(* Inputs of the similarity search                                        *)

MaxIncidents == 3

MaxLimit == 2

StoredEmbeddings == {None, Some(<<1, 0>>), Some(<<4, 3>>), Some(<<3, 4>>)}

\* The last one has the wrong dimension.
QueryEmbeddings == {<<1, 0>>, <<0, 1>>, <<0 - 3, 0 - 4>>, <<1>>}

Thresholds == {None, Some(50), Some(90)}

\* Tables of at most MaxIncidents rows; the row fetched i-th has id i.
Tables ==
    UNION {[1..n -> StoredEmbeddings] : n \in 0..MaxIncidents}

RowsOf(table) == [i \in 1..Len(table) |-> [id |-> i, embedding |-> table[i]]]

InitSim ==
    /\ model = FALSE
    /\ stopwords = FALSE
    /\ category_embeddings = {}
    /\ initialized = FALSE
    /\ init_called = FALSE
    /\ incidents \in {RowsOf(t) : t \in Tables}
    /\ created = Len(incidents)
    /\ call = NoCall
    /\ result = Raised("none")

FindSimilarIncidents(current_incident_id, embedding, threshold, limit, fetch_ok) ==
    /\ Idle
    /\ call' = [op |-> "find_similar_incidents",
                current_incident_id |-> current_incident_id,
                embedding |-> embedding, threshold |-> threshold,
                limit |-> limit, fetch_ok |-> fetch_ok]
    /\ result' = find_similar_incidents(incidents, current_incident_id,
                                        embedding, threshold, limit, fetch_ok)
    /\ UNCHANGED <<model, stopwords, category_embeddings, initialized,
                   init_called, incidents, created>>

NextSim ==
    \/ Respond
    \/ \E current_incident_id \in 1..(Len(incidents) + 1),
          embedding \in QueryEmbeddings,
          threshold \in Thresholds,
          limit \in 1..MaxLimit,
          fetch_ok \in BOOLEAN :
          FindSimilarIncidents(current_incident_id, embedding, threshold,
                               limit, fetch_ok)

SpecSim == InitSim /\ [][NextSim]_vars

--------------------------------------------------------------------------
(* analyze_trends: classification of the per-category counts              *)
(*                                                                        *)
(* current and previous are the two GROUP BY query results: a waste type  *)
(* is a key only if its count is positive.  order is the iteration order  *)
(* of the Python set all_waste_types.  change is the exact ratio          *)
(* (current - previous) * 100 / previous.                                 *)

\* round(change, 1), in tenths of a percent; exact ties go to the even tenth
Round1(current, previous) ==
    LET num == (current - previous) * 1000
        q == num \div previous
        r == num % previous
    IN  IF 2 * r < previous THEN q
        ELSE IF 2 * r > previous THEN q + 1
        ELSE IF q % 2 = 0 THEN q ELSE q + 1

\* Variant with inclusive cutoffs.
Trend_Inclusive(current, previous) ==
    IF (current - previous) * 100 >= 20 * previous THEN "rising"
    ELSE IF (current - previous) * 100 <= (0 - 20) * previous THEN "falling"
    ELSE "stable"

\* change > 20: rising; change < -20: falling; else stable
Trend(current, previous) ==
    IF (current - previous) * 100 > 20 * previous THEN "rising"
    ELSE IF (current - previous) * 100 < (0 - 20) * previous THEN "falling"
    ELSE "stable"

Get(d, key) == IF key \in DOMAIN d THEN d[key] ELSE 0

TrendItem(waste_type, current, previous) ==
    LET base == [waste_type |-> waste_type,
                 current_count |-> current,
                 previous_count |-> previous,
                 change_percentage |-> Round1(current, previous),
                 change_absolute |-> current - previous,
                 trend |-> Trend(current, previous)]
    IN  IF base.trend = "rising"
        THEN base @@ [severity |->
                IF (current - previous) * 100 > 50 * previous
                THEN "high" ELSE "medium"]
        ELSE IF base.trend = "falling"
        THEN base @@ [severity |->
                IF (current - previous) * 100 < (0 - 50) * previous
                THEN "high" ELSE "medium"]
        ELSE base

\* The loop with the second branch taken only for categories that still
\* have incidents in the current period.
RECURSIVE TrendLoop_SkipVanished(_, _, _, _)
TrendLoop_SkipVanished(order, current_counts, previous_counts, kind) ==
    IF order = <<>> THEN <<>>
    ELSE LET waste_type == Head(order)
             current == Get(current_counts, waste_type)
             previous == Get(previous_counts, waste_type)
             rest == TrendLoop_SkipVanished(Tail(order), current_counts,
                                            previous_counts, kind)
         IN  IF previous = 0 /\ current > 0
             THEN IF kind = "new"
                  THEN <<[waste_type |-> waste_type, count |-> current,
                          trend |-> "new"]>> \o rest
                  ELSE rest
             ELSE IF previous > 0 /\ current > 0
                     /\ Trend(current, previous) = kind
             THEN <<TrendItem(waste_type, current, previous)>> \o rest
             ELSE rest

\* The loop over all_waste_types: the items of one list, in loop order.
RECURSIVE TrendLoop(_, _, _, _)
TrendLoop(order, current_counts, previous_counts, kind) ==
    IF order = <<>> THEN <<>>
    ELSE LET waste_type == Head(order)
             current == Get(current_counts, waste_type)
             previous == Get(previous_counts, waste_type)
             rest == TrendLoop(Tail(order), current_counts, previous_counts, kind)
         IN  IF previous = 0 /\ current > 0
             THEN IF kind = "new"
                  THEN <<[waste_type |-> waste_type, count |-> current,
                          trend |-> "new"]>> \o rest
                  ELSE rest
             ELSE IF previous > 0 /\ Trend(current, previous) = kind
             THEN <<TrendItem(waste_type, current, previous)>> \o rest
             ELSE rest

\* list.sort(key=lambda x: abs(x['change_percentage']), reverse=True)
RECURSIVE InsertByChange(_, _)
InsertByChange(sorted, x) ==
    IF sorted = <<>> THEN <<x>>
    ELSE IF Abs(x.change_percentage) > Abs(Head(sorted).change_percentage)
         THEN <<x>> \o sorted
         ELSE <<Head(sorted)>> \o InsertByChange(Tail(sorted), x)

\* Variant that leaves the list in loop order.
SortByChange_Unsorted(items) == items

RECURSIVE SortByChange(_)
SortByChange(items) ==
    IF items = <<>> THEN <<>>
    ELSE InsertByChange(SortByChange(SubSeq(items, 1, Len(items) - 1)),
                        items[Len(items)])

analyze_trends(current_counts, previous_counts, order) ==
    LET rising_trends ==
            SortByChange(TrendLoop(order, current_counts, previous_counts, "rising"))
        falling_trends ==
            SortByChange(TrendLoop(order, current_counts, previous_counts, "falling"))
        stable_trends ==
            TrendLoop(order, current_counts, previous_counts, "stable")
        new_types == TrendLoop(order, current_counts, previous_counts, "new")
    IN  [kind |-> "returned",
         rising_trends |-> rising_trends,
         falling_trends |-> falling_trends,
         stable_trends |-> stable_trends,
         new_waste_types |-> new_types,
         summary |-> [total_waste_types |-> Len(order),
                      trending_up |-> Len(rising_trends),
                      trending_down |-> Len(falling_trends),
                      stable |-> Len(stable_trends)]]

--------------------------------------------------------------------------
(* Inputs of the trend analysis                                           *)

TrendTypes == {"plastic", "glass"}

CountValues == {0, 4, 5, 6, 100, 120, 121, 125, 170}

\* Result of SELECT waste_type, count(id) ... GROUP BY waste_type
QueryResult(counts) ==
    [t \in {u \in DOMAIN counts : counts[u] > 0} |-> counts[t]]

\* The sequences enumerating set S once each
Orders(S) ==
    {o \in [1..Cardinality(S) -> S] : {o[i] : i \in DOMAIN o} = S}

AnalyzeTrends(current, previous, order) ==
    /\ Idle
    /\ call' = [op |-> "analyze_trends", current_counts |-> current,
                previous_counts |-> previous, order |-> order]
    /\ result' = analyze_trends(current, previous, order)
    /\ UNCHANGED <<model, stopwords, category_embeddings, initialized,
                   init_called, incidents, created>>

NextTrends ==
    \/ Respond
    \/ \E c \in [TrendTypes -> CountValues], p \in [TrendTypes -> CountValues] :
          \E order \in Orders(DOMAIN QueryResult(c) \cup DOMAIN QueryResult(p)) :
             AnalyzeTrends(QueryResult(c), QueryResult(p), order)

SpecTrends == Init /\ [][NextTrends]_vars

--------------------------------------------------------------------------
(* AnalyticsService._detect_daily_spikes                                  *)
(* daily_counts is the result of the query: one [date, count] per         *)
(* calendar date that has an incident, in ascending date order.  With n   *)
(* the number of dates and S the sum of the counts, the deviation of a    *)
(* count x from the mean is kept as n * (x - mean) = n * x - S, and the   *)
(* variance as n^2 * variance, both integers.                             *)

\* nearest integer to scale * num / den, a tie going to the even one
RoundRatio(num, den, scale) ==
    LET q == (scale * num) \div den
        r == (scale * num) % den
    IN  IF 2 * r > den \/ (2 * r = den /\ q % 2 = 1) THEN q + 1 ELSE q

RECURSIVE SumCounts(_)
SumCounts(counts) ==
    IF counts = <<>> THEN 0 ELSE Head(counts) + SumCounts(Tail(counts))

\* n * (x - mean_count), with stats.n = len(counts), stats.sum = sum(counts)
Deviation(x, stats) == stats.n * x - stats.sum

\* sum((x - mean_count) ** 2 for x in counts), times n^2
RECURSIVE SquaredDeviations(_, _)
SquaredDeviations(rest, stats) ==
    IF rest = <<>> THEN 0
    ELSE Deviation(Head(rest), stats) * Deviation(Head(rest), stats)
         + SquaredDeviations(Tail(rest), stats)

\* len(counts), sum(counts) and the variance times n^2
Statistics(counts) ==
    LET base == [n |-> Len(counts), sum |-> SumCounts(counts)]
    IN  [n |-> base.n, sum |-> base.sum,
         variance |-> SquaredDeviations(counts, base) \div base.n]

\* spike_threshold = 2.5, in halves
SPIKE_THRESHOLD == 5

\* count > mean_count + (halves / 2) * std_dev, squared on both sides
AboveMean(count, stats, halves) ==
    /\ Deviation(count, stats) > 0
    /\ 4 * Deviation(count, stats) * Deviation(count, stats)
         > halves * halves * stats.variance

\* round(threshold, 1) in tenths: the T with T - 1/2 <= 10 * threshold
\* < T + 1/2, where 10 * threshold = (10 * S + 5 * halves * sqrt(n^2 * variance)) / n
ThresholdReached(T, stats, halves) ==
    LET lhs == stats.n * (2 * T - 1) - 20 * stats.sum
    IN  lhs <= 0 \/ lhs * lhs <= 100 * halves * halves * stats.variance

RoundedThreshold(stats, halves) ==
    CHOOSE T \in 0..(10 * (halves + 1) * stats.sum) :
        /\ ThresholdReached(T, stats, halves)
        /\ ~ThresholdReached(T + 1, stats, halves)

SpikeSeverity_ThreeSigma(count, stats) ==
    IF AboveMean(count, stats, 2 * 3) THEN "high" ELSE "medium"

\* "high" if count > mean_count + (4 * std_dev) else "medium"
SpikeSeverity(count, stats) ==
    IF AboveMean(count, stats, 2 * 4) THEN "high" ELSE "medium"

IsSpike_TwoSigma(count, stats) == AboveMean(count, stats, 4)

\* Variant that flags every count above the mean.
IsSpike_AboveMean(count, stats) == AboveMean(count, stats, 0)

\* if count > threshold
IsSpike(count, stats) == AboveMean(count, stats, SPIKE_THRESHOLD)

\* The loop over daily_counts, in the order of the query
RECURSIVE SpikeLoop(_, _)
SpikeLoop(rest, stats) ==
    IF rest = <<>> THEN <<>>
    ELSE LET date == Head(rest).date
             count == Head(rest).count
         IN  IF IsSpike(count, stats)
             THEN <<[date |-> date, count |-> count,
                     mean |-> RoundRatio(stats.sum, stats.n, 10),
                     threshold |-> RoundedThreshold(stats, SPIKE_THRESHOLD),
                     severity |-> SpikeSeverity(count, stats)]>>
                  \o SpikeLoop(Tail(rest), stats)
             ELSE SpikeLoop(Tail(rest), stats)

CountsOf(daily_counts) ==
    [i \in 1..Len(daily_counts) |-> daily_counts[i].count]

\* The spikes of a query result; mean and threshold are in tenths.
detect_daily_spikes(daily_counts) ==
    IF Len(daily_counts) < 3 THEN <<>>
    ELSE SpikeLoop(daily_counts, Statistics(CountsOf(daily_counts)))

--------------------------------------------------------------------------
(* Inputs of the spike detection: up to MaxDays dates, each with a base   *)
(* count except one or two dates with a peak count.                       *)

MaxDays == 18

BaseCounts == {1, 10}

PeakCounts == {10, 11, 50}

DailyCounts ==
    {<<>>} \cup
    {[i \in 1..q[1] |->
        [date |-> i,
         count |-> IF i = q[2] \/ i = q[3] THEN q[5] ELSE q[4]]] :
       q \in {r \in (1..MaxDays) \X (1..MaxDays) \X (1..MaxDays)
                       \X BaseCounts \X PeakCounts :
                 r[2] <= r[3] /\ r[3] <= r[1]}}

\* analyze_trends asks for the spikes of the last 7 days
SPIKE_DAYS == 7

\* Every list of up to SPIKE_DAYS dates with 1, 2 or 50 incidents each
WeekDailyCounts ==
    UNION {{[i \in 1..k |-> [date |-> i, count |-> counts[i]]] :
               counts \in [1..k -> {1, 2, 50}]} : k \in 0..SPIKE_DAYS}

DetectDailySpikes(daily_counts) ==
    /\ Idle
    /\ call' = [op |-> "_detect_daily_spikes", daily_counts |-> daily_counts]
    /\ result' = [kind |-> "returned",
                  spikes |-> detect_daily_spikes(daily_counts)]
    /\ UNCHANGED <<model, stopwords, category_embeddings, initialized,
                   init_called, incidents, created>>

NextSpikes ==
    \/ Respond
    \/ \E daily_counts \in DailyCounts \cup WeekDailyCounts :
          DetectDailySpikes(daily_counts)

SpecSpikes == Init /\ [][NextSpikes]_vars

--------------------------------------------------------------------------
(* The queries of analyze_trends over the incidents table                 *)
(* Time is counted in ticks of half a day, so that two timestamps of one  *)
(* calendar date can lie on either side of a period boundary.  A row is   *)
(* [id, timestamp, waste_type], the columns the queries read.             *)

TicksPerDay == 2

\* timedelta(days=days)
Timedelta(days) == days * TicksPerDay

\* timestamp >= current_start AND timestamp <= current_end AND
\* waste_type IS NOT NULL
InCurrentPeriod(row, now, days) ==
    /\ row.timestamp >= now - Timedelta(days)
    /\ row.timestamp <= now
    /\ row.waste_type # None

InPreviousPeriod_Inclusive(row, now, days) ==
    /\ row.timestamp >= now - Timedelta(days) - Timedelta(days)
    /\ row.timestamp <= now - Timedelta(days)
    /\ row.waste_type # None

\* timestamp >= previous_start AND timestamp < current_start AND
\* waste_type IS NOT NULL
InPreviousPeriod(row, now, days) ==
    /\ row.timestamp >= now - Timedelta(days) - Timedelta(days)
    /\ row.timestamp < now - Timedelta(days)
    /\ row.waste_type # None

\* SELECT waste_type, count(id) ... GROUP BY waste_type over selected rows
GroupByWasteType(selected) ==
    [t \in {Value(selected[i].waste_type) : i \in 1..Len(selected)} |->
        Cardinality({i \in 1..Len(selected) :
                        Value(selected[i].waste_type) = t})]

current_counts(rows, now, days) ==
    GroupByWasteType(SelectSeq(rows, LAMBDA row : InCurrentPeriod(row, now, days)))

previous_counts(rows, now, days) ==
    GroupByWasteType(SelectSeq(rows, LAMBDA row : InPreviousPeriod(row, now, days)))

\* func.date(timestamp)
Date(timestamp) == timestamp \div TicksPerDay

\* The elements of a set of dates in ascending order
RECURSIVE Ascending(_)
Ascending(dates) ==
    IF dates = {} THEN <<>>
    ELSE LET first == CHOOSE d \in dates : \A e \in dates : d <= e
         IN  <<first>> \o Ascending(dates \ {first})

\* SELECT date(timestamp), count(id) WHERE timestamp >= start_date
\* GROUP BY date ORDER BY date
daily_counts(rows, now, days) ==
    LET selected == SelectSeq(rows, LAMBDA row :
                        row.timestamp >= now - Timedelta(days))
        dates == Ascending({Date(selected[i].timestamp) :
                               i \in 1..Len(selected)})
    IN  [k \in 1..Len(dates) |->
            [date |-> dates[k],
             count |-> Cardinality({i \in 1..Len(selected) :
                          Date(selected[i].timestamp) = dates[k]})]]

--------------------------------------------------------------------------
(* Inputs of the trend analysis over a table: up to MaxIncidents rows in  *)
(* timestamp order, the clock at Clock, periods of 1 or 2 days            *)

Clock == {8, 9}

Periods == {1, 2}

Timestamps == {0, 1, 4, 5, 6, 7, 9, 10}

WasteTypes == {None} \cup {Some(t) : t \in TrendTypes}

TimedTables ==
    UNION {{table \in [1..n -> Timestamps \X WasteTypes] :
              \A i \in 1..n : \A j \in 1..n :
                 i < j => table[i][1] <= table[j][1]} : n \in 0..MaxIncidents}

TimedRowsOf(table) ==
    [i \in DOMAIN table |->
        [id |-> i, timestamp |-> table[i][1], waste_type |-> table[i][2]]]

InitWindows ==
    /\ model = FALSE
    /\ stopwords = FALSE
    /\ category_embeddings = {}
    /\ initialized = FALSE
    /\ init_called = FALSE
    /\ incidents \in {TimedRowsOf(table) : table \in TimedTables}
    /\ created = Len(incidents)
    /\ call = NoCall
    /\ result = Raised("none")

\* GET /trends: both period queries, the classification, the spikes of
\* the last 7 days
TrendAnalysis(now, days, order) ==
    /\ Idle
    /\ call' = [op |-> "analyze_trends", now |-> now, days |-> days,
                current_counts |-> current_counts(incidents, now, days),
                previous_counts |-> previous_counts(incidents, now, days),
                order |-> order]
    /\ result' = analyze_trends(current_counts(incidents, now, days),
                                previous_counts(incidents, now, days), order)
                 @@ [period_days |-> days,
                     spikes |-> detect_daily_spikes(
                                    daily_counts(incidents, now, 7))]
    /\ UNCHANGED <<model, stopwords, category_embeddings, initialized,
                   init_called, incidents, created>>

NextWindows ==
    \/ Respond
    \/ \E now \in Clock, days \in Periods :
          \E order \in Orders(DOMAIN current_counts(incidents, now, days)
                              \cup DOMAIN previous_counts(incidents, now, days)) :
             TrendAnalysis(now, days, order)

SpecWindows == InitWindows /\ [][NextWindows]_vars

--------------------------------------------------------------------------
(* AnalyticsService.detect_anomalies                                      *)
(* location_rows is the result of the first query, anomaly_rows the       *)
(* groups the second query's HAVING clause selects from; each is a        *)
(* sequence of [location, count].  threshold_multiplier is in tenths.     *)

\* row count > mean_count * threshold_multiplier * factor, with the factor
\* in halves: count > (sum / n) * (tenths / 10) * (halves / 2)
OverThreshold(count, n, sum, tenths, halves) ==
    20 * n * count > sum * tenths * halves

AnomalySeverity_OverMean(count, n, sum, tenths) ==
    IF OverThreshold(count, n, sum, 10, 3) THEN "high" ELSE "medium"

\* "high" if row[1] > threshold * 1.5 else "medium"
AnomalySeverity(count, n, sum, tenths) ==
    IF OverThreshold(count, n, sum, tenths, 3) THEN "high" ELSE "medium"

\* The anomalies; mean and threshold are in hundredths.
detect_anomalies(location_rows, anomaly_rows, tenths) ==
    IF location_rows = <<>> THEN <<>>
    ELSE LET location_counts ==
                 [i \in 1..Len(location_rows) |-> location_rows[i].count]
             n == Len(location_counts)
             sum == SumCounts(location_counts)
             having == SelectSeq(anomaly_rows, LAMBDA row :
                           OverThreshold(row.count, n, sum, tenths, 2))
         IN  [i \in 1..Len(having) |->
                [location |-> having[i].location,
                 count |-> having[i].count,
                 mean |-> RoundRatio(sum, n, 100),
                 threshold |-> RoundRatio(sum * tenths, 10 * n, 100),
                 severity |-> AnomalySeverity(having[i].count, n, sum, tenths)]]

--------------------------------------------------------------------------
(* Inputs of the anomaly detection: the incidents per location, a         *)
(* location without incident forming no group                             *)

LocationOrder == <<"A", "B", "C", "D">>

LocationCounts == {0, 5, 40, 100}

\* threshold_multiplier: 1.0, 1.5, 2.0, 5.0
Multipliers == {10, 15, 20, 50}

\* SELECT location, count(id) ... GROUP BY location
LocationRows(counts) ==
    LET present == SelectSeq(LocationOrder, LAMBDA l : counts[l] > 0)
    IN  [i \in 1..Len(present) |->
            [location |-> present[i], count |-> counts[present[i]]]]

DetectAnomalies(counts, tenths) ==
    /\ Idle
    /\ call' = [op |-> "detect_anomalies", counts |-> counts,
                threshold_multiplier |-> tenths]
    /\ result' = [kind |-> "returned",
                  anomalies |-> detect_anomalies(LocationRows(counts),
                                                 LocationRows(counts), tenths)]
    /\ UNCHANGED <<model, stopwords, category_embeddings, initialized,
                   init_called, incidents, created>>

NextAnomalies ==
    \/ Respond
    \/ \E counts \in [{LocationOrder[i] : i \in 1..Len(LocationOrder)}
                        -> LocationCounts], tenths \in Multipliers :
          DetectAnomalies(counts, tenths)

SpecAnomalies == Init /\ [][NextAnomalies]_vars

--------------------------------------------------------------------------
(* The incident requests: POST, PUT and DELETE /incidents                 *)
(*                                                                        *)
(* A row of the incidents table is here [id, description, location,       *)
(* latitude, longitude, waste_type, waste_type_confidence, embedding,     *)
(* keywords, similar_incident_ids]; the nullable columns hold optional    *)
(* values.  Each request runs in its own database session (get_db), whose *)
(* writes reach the table when the session commits and are dropped when   *)
(* it rolls back.                                                         *)

\* IncidentService.create_incident: the row as flushed, before any AI
\* processing
NewIncident(id, incident_data) ==
    [id |-> id,
     description |-> incident_data.description,
     location |-> incident_data.location,
     latitude |-> incident_data.latitude,
     longitude |-> incident_data.longitude,
     waste_type |-> None,
     waste_type_confidence |-> None,
     embedding |-> None,
     keywords |-> None,
     similar_incident_ids |-> None]

\* IncidentService.get_incident(...) is not None
Exists(rows, incident_id) ==
    \E i \in 1..Len(rows) : rows[i].id = incident_id

\* IncidentService.update_ai_fields; similar_incident_ids is written only
\* when the argument is a non-empty list
update_ai_fields(rows, incident_id, waste_type, confidence, embedding, keywords, similar_incident_ids) ==
    [i \in 1..Len(rows) |->
        IF rows[i].id # incident_id THEN rows[i]
        ELSE [rows[i] EXCEPT
                !.waste_type = Some(waste_type),
                !.waste_type_confidence = Some(confidence),
                !.embedding = Some(embedding),
                !.keywords = Some(keywords),
                !.similar_incident_ids =
                    IF similar_incident_ids # <<>>
                    THEN Some(similar_incident_ids) ELSE @]]

\* Variant that drops the computed fields when the description is edited.
update_incident_Reprocess(rows, incident_id, update_data) ==
    [i \in 1..Len(rows) |->
        IF rows[i].id # incident_id THEN rows[i]
        ELSE [field \in DOMAIN rows[i] |->
                IF field \in DOMAIN update_data THEN update_data[field]
                ELSE IF "description" \in DOMAIN update_data
                        /\ field \in {"waste_type", "waste_type_confidence",
                                      "embedding", "keywords"}
                THEN None
                ELSE rows[i][field]]]

\* IncidentService.update_incident: update_data holds the fields the
\* request has set (model_dump(exclude_unset=True)), each written with
\* setattr; an unknown id changes nothing
update_incident(rows, incident_id, update_data) ==
    [i \in 1..Len(rows) |->
        IF rows[i].id # incident_id THEN rows[i]
        ELSE [field \in DOMAIN rows[i] |->
                IF field \in DOMAIN update_data THEN update_data[field]
                ELSE rows[i][field]]]

\* IncidentService.delete_incident
delete_incident(rows, incident_id) ==
    SelectSeq(rows, LAMBDA row : row.id # incident_id)

\* AIService.process_incident: classification, keywords (top_n = 5) and
\* embedding; encoded is the vector the encoder gives for the combined
\* text, or None when the encoder raises.  Any exception is re-raised.
process_incident(self, description, location, enc, encoded, tokenizer_ok) ==
    LET classified == classify_waste_type(self, description, enc)
        embedded == generate_embedding(self, description \o " " \o location,
                                       encoded # None)
    IN  IF classified.kind # "returned" THEN Raised(classified.kind)
        ELSE IF embedded.kind # "returned" THEN Raised(embedded.kind)
        ELSE [kind |-> "returned",
              waste_type |-> classified.category,
              confidence |-> classified.confidence,
              keywords |-> extract_keywords(self, description, 5,
                                            tokenizer_ok),
              embedding |-> Value(encoded)]

\* The writes of the create handler that its session holds when the
\* handler ends: the flushed row, then the AI fields, then the similar
\* incidents.  ai_result is None when initialize raised.
PendingWrites(rows, id, incident_data, ai_result, fetch_ok) ==
    LET flushed == rows \o <<NewIncident(id, incident_data)>>
    IN  IF ai_result = None \/ Value(ai_result).kind # "returned"
        THEN flushed
        ELSE LET ai == Value(ai_result)
                 processed ==
                     update_ai_fields(flushed, id, ai.waste_type,
                         ai.confidence, ai.embedding, ai.keywords, <<>>)
                 similar_incidents ==
                     find_similar_incidents(processed, id, ai.embedding,
                                            None, 5, fetch_ok).ids
             IN  IF similar_incidents # <<>>
                 THEN update_ai_fields(processed, id, ai.waste_type,
                          ai.confidence, ai.embedding, ai.keywords,
                          similar_incidents)
                 ELSE processed

get_db_CommitAlways(committed, pending, raised) == pending

\* get_db: the table after the session ends; an exception leaving the
\* handler rolls the session back
get_db(committed, pending, raised) ==
    IF raised THEN committed ELSE pending

--------------------------------------------------------------------------
(* Inputs of the incident requests                                        *)

MaxCreated == 2

CreatePayloads ==
    {[description |-> "Plastic bottle dumped", location |-> l,
      latitude |-> None, longitude |-> None] : l \in {"Park", "Dock"}}

\* The fields a PUT request sets
UpdatePayloads ==
    {<<>>,
     [description |-> "broken glass near school"],
     [location |-> "Dock"],
     [latitude |-> Some(1), longitude |-> Some(2)],
     [description |-> "broken glass near school", location |-> "Dock",
      latitude |-> Some(1), longitude |-> Some(2)]}

\* What happens to the AI processing of a creation: the encoder's answers
\* to the classifier and to generate_embedding, the tokenizer, the
\* candidate query and the final commit
Semantic ==
    [ok |-> TRUE,
     scores |-> [c \in Categories |->
                    IF c = "plastic" THEN Milli(950) ELSE Milli(300)]]

EncoderDown == [ok |-> FALSE, scores |-> [c \in Categories |-> 0]]

CreateOutcomes ==
    {[enc |-> Semantic, encoded |-> Some(<<1, 0>>), tokenizer_ok |-> TRUE,
      fetch_ok |-> TRUE, commit_ok |-> TRUE],
     [enc |-> Semantic, encoded |-> Some(<<0, 1>>), tokenizer_ok |-> TRUE,
      fetch_ok |-> TRUE, commit_ok |-> TRUE],
     [enc |-> EncoderDown, encoded |-> Some(<<1, 0>>), tokenizer_ok |-> FALSE,
      fetch_ok |-> FALSE, commit_ok |-> TRUE],
     [enc |-> Semantic, encoded |-> None, tokenizer_ok |-> TRUE,
      fetch_ok |-> TRUE, commit_ok |-> TRUE],
     [enc |-> Semantic, encoded |-> Some(<<1, 0>>), tokenizer_ok |-> TRUE,
      fetch_ok |-> TRUE, commit_ok |-> FALSE]}

\* initialize, called by the create handler, raises while loading the
\* model or runs to the end
CreateInitOutcomes ==
    {[stage |-> "model", n |-> 0], [stage |-> "done", n |-> Len(CategoryOrder)]}

--------------------------------------------------------------------------
(* The incident requests as actions                                       *)

\* POST /incidents: create_incident, initialize, process_incident,
\* update_ai_fields, find_similar_incidents, update_ai_fields, commit; any
\* exception becomes a 500 response and the session is rolled back
CreateIncident(incident_data, init, outcome) ==
    /\ Idle
    /\ created < MaxCreated
    /\ init_called' = TRUE
    /\ IF initialized
       THEN UNCHANGED <<model, stopwords, category_embeddings, initialized>>
       ELSE /\ stopwords' = (stopwords \/ init.stage # "stopwords")
            /\ model' = (model \/ init.stage \in {"embeddings", "done"})
            /\ category_embeddings' =
                 category_embeddings \cup
                 {CategoryOrder[i] : i \in 1..init.n}
            /\ initialized' = (init.stage = "done")
    /\ LET id == created + 1
           ai_result ==
               IF ~initialized'
               THEN None
               ELSE Some(process_incident(Self', incident_data.description,
                            incident_data.location, outcome.enc,
                            outcome.encoded, outcome.tokenizer_ok))
           raised == \/ ai_result = None
                     \/ Value(ai_result).kind # "returned"
                     \/ ~outcome.commit_ok
           pending == PendingWrites(incidents, id, incident_data, ai_result,
                                    outcome.fetch_ok)
       IN  /\ incidents' = get_db(incidents, pending, raised)
           /\ created' = IF raised THEN created ELSE id
           /\ call' = [op |-> "create_incident", incident_id |-> id,
                       incident_data |-> incident_data,
                       ai_failed |-> (ai_result = None
                                      \/ Value(ai_result).kind # "returned")]
           /\ result' = IF raised THEN Raised("HTTP 500")
                        ELSE [kind |-> "returned", status |-> 201]

\* PUT /incidents/{incident_id}
UpdateIncident(incident_id, update_data) ==
    /\ Idle
    /\ call' = [op |-> "update_incident", incident_id |-> incident_id,
                update_data |-> update_data]
    /\ incidents' = get_db(incidents,
                           update_incident(incidents, incident_id, update_data),
                           ~Exists(incidents, incident_id))
    /\ result' = IF Exists(incidents, incident_id)
                 THEN [kind |-> "returned", status |-> 200]
                 ELSE Raised("HTTP 404")
    /\ UNCHANGED <<model, stopwords, category_embeddings, initialized,
                   init_called, created>>

\* DELETE /incidents/{incident_id}
DeleteIncident(incident_id) ==
    /\ Idle
    /\ call' = [op |-> "delete_incident", incident_id |-> incident_id]
    /\ incidents' = get_db(incidents,
                           delete_incident(incidents, incident_id),
                           ~Exists(incidents, incident_id))
    /\ result' = IF Exists(incidents, incident_id)
                 THEN [kind |-> "returned", status |-> 204]
                 ELSE Raised("HTTP 404")
    /\ UNCHANGED <<model, stopwords, category_embeddings, initialized,
                   init_called, created>>

NextIncidents ==
    \/ Respond
    \/ \E incident_data \in CreatePayloads, outcome \in CreateOutcomes :
          \E init \in IF initialized
                       THEN {[stage |-> "done", n |-> Len(CategoryOrder)]}
                       ELSE CreateInitOutcomes :
             CreateIncident(incident_data, init, outcome)
    \/ \E incident_id \in 1..(created + 1), update_data \in UpdatePayloads :
          UpdateIncident(incident_id, update_data)
    \/ \E incident_id \in 1..(created + 1) : DeleteIncident(incident_id)

SpecIncidents == Init /\ [][NextIncidents]_vars

--------------------------------------------------------------------------
(* AnalyticsService.generate_admin_summary                                *)
(* The summary reads the store through get_summary_statistics,            *)
(* analyze_trends, detect_anomalies and get_keyword_frequency, each of    *)
(* them one or more separate queries, and builds its insights from their  *)
(* results.  An insight is kept as [type, severity, data]; its text and   *)
(* the executive summary are formatted from the same data and are left    *)
(* out.  A dict is kept as the sequence of its items in insertion order.  *)

\* get_summary_statistics: total is the scalar of the count query,
\* distribution_rows and location_rows the rows of the two GROUP BY queries
get_summary_statistics(total, distribution_rows, location_rows) ==
    [total_incidents |-> total,
     waste_type_distribution |-> distribution_rows,
     top_locations |-> SubSeq(location_rows, 1, Min(10, Len(location_rows)))]

\* get_keyword_frequency: Counter(all_keywords).most_common(limit)
get_keyword_frequency(keyword_rows, limit) ==
    LET \* all_keywords: the keywords of the rows whose list is neither
        \* NULL nor empty, in row order
        all_keywords[n \in 0..Len(keyword_rows)] ==
            IF n = 0 THEN <<>>
            ELSE IF keyword_rows[n] = None THEN all_keywords[n - 1]
            ELSE all_keywords[n - 1] \o Value(keyword_rows[n])
        counted == SortByFrequency(WordFreq(all_keywords[Len(keyword_rows)]))
        top == SubSeq(counted, 1, Min(limit, Len(counted)))
    IN  [i \in 1..Len(top) |-> [keyword |-> top[i].word, count |-> top[i].freq]]

\* The denominators of the divisions the operations evaluate.
\* (current - previous) / previous, in the elif branch of the loop
ChangeDivisors(order, current, previous) ==
    {Get(previous, order[i]) :
        i \in {j \in 1..Len(order) :
                 /\ ~(Get(previous, order[j]) = 0
                      /\ Get(current, order[j]) > 0)
                 /\ Get(previous, order[j]) > 0}}

SpikeDivisors_Unguarded(daily) == {Len(daily)}

\* sum(counts) / len(counts) and the variance, behind len(daily_counts) < 3
SpikeDivisors(daily) ==
    IF Len(daily) < 3 THEN {} ELSE {Len(daily)}

\* sum(location_counts) / len(location_counts), behind `if not location_counts`
AnomalyDivisors(location_rows) ==
    IF location_rows = <<>> THEN {} ELSE {Len(location_rows)}

\* most_common[1] / total * 100 if total > 0 else 0
PercentageDivisors(stats) ==
    IF stats.waste_type_distribution # <<>> /\ stats.total_incidents > 0
    THEN {stats.total_incidents} ELSE {}

\* Variant that reports the hotspot before the spike.
Insights_HotspotFirst(stats, trends, anomalies, keywords) ==
    LET total == stats.total_incidents
        Insight(type, severity, data) ==
            [type |-> type, severity |-> severity, data |-> data]
    IN  (IF total > 0
         THEN <<Insight("overview", "info", <<total>>)>> ELSE <<>>)
        \o (IF trends.rising_trends # <<>>
            THEN <<Insight("trend_rising", "info",
                           <<trends.rising_trends[1]>>)>> ELSE <<>>)
        \o (IF trends.falling_trends # <<>>
            THEN <<Insight("trend_falling", "success",
                           <<trends.falling_trends[1]>>)>> ELSE <<>>)
        \o (IF trends.new_waste_types # <<>>
            THEN <<Insight("new_category", "info",
                           trends.new_waste_types)>> ELSE <<>>)
        \o (IF anomalies # <<>>
            THEN <<Insight("hotspot", "warning", <<anomalies[1]>>)>>
            ELSE <<>>)
        \o (IF trends.spikes # <<>>
            THEN <<Insight("spike", "warning",
                           <<trends.spikes[Len(trends.spikes)]>>)>>
            ELSE <<>>)
        \o (IF stats.waste_type_distribution # <<>>
            THEN <<Insight("dominant_type", "info", <<>>)>> ELSE <<>>)
        \o (IF keywords # <<>>
            THEN <<Insight("keywords", "info", keywords)>> ELSE <<>>)
        \o (IF stats.top_locations # <<>>
            THEN <<Insight("location", "info",
                           <<stats.top_locations[1]>>)>> ELSE <<>>)

\* The insights list, appended to in this order; the percentage of the
\* dominant type is in tenths
Insights(stats, trends, anomalies, keywords) ==
    LET total == stats.total_incidents
        Insight(type, severity, data) ==
            [type |-> type, severity |-> severity, data |-> data]
    IN  (IF total > 0
         THEN <<Insight("overview", "info", <<total>>)>> ELSE <<>>)
        \o (IF trends.rising_trends # <<>>
            THEN LET top_rising == trends.rising_trends[1]
                 IN  <<Insight("trend_rising",
                               IF top_rising.severity = "high"
                               THEN "warning" ELSE "info",
                               <<top_rising>>)>>
            ELSE <<>>)
        \o (IF trends.falling_trends # <<>>
            THEN <<Insight("trend_falling", "success",
                           <<trends.falling_trends[1]>>)>> ELSE <<>>)
        \o (IF trends.new_waste_types # <<>>
            THEN <<Insight("new_category", "info",
                           trends.new_waste_types)>> ELSE <<>>)
        \o (IF trends.spikes # <<>>
            THEN <<Insight("spike", "warning",
                           <<trends.spikes[Len(trends.spikes)]>>)>>
            ELSE <<>>)
        \o (IF anomalies # <<>>
            THEN <<Insight("hotspot",
                           IF anomalies[1].severity = "high"
                           THEN "error" ELSE "warning",
                           <<anomalies[1]>>)>>
            ELSE <<>>)
        \o (IF stats.waste_type_distribution # <<>>
            THEN LET items == stats.waste_type_distribution
                     \* max(items, key=count): the first of the largest
                     most_common ==
                         items[CHOOSE i \in 1..Len(items) :
                            /\ \A j \in 1..Len(items) :
                                  items[j].count <= items[i].count
                            /\ \A j \in 1..(i - 1) :
                                  items[j].count < items[i].count]
                 IN  <<Insight("dominant_type", "info",
                         <<[waste_type |-> most_common.waste_type,
                            count |-> most_common.count,
                            percentage |->
                               IF total > 0
                               THEN RoundRatio(100 * most_common.count,
                                               total, 10)
                               ELSE 0]>>)>>
            ELSE <<>>)
        \o (IF keywords # <<>>
            THEN <<Insight("keywords", "info",
                           SubSeq(keywords, 1, Min(5, Len(keywords))))>>
            ELSE <<>>)
        \o (IF stats.top_locations # <<>>
            THEN <<Insight("location", "info",
                           <<stats.top_locations[1]>>)>> ELSE <<>>)

generate_admin_summary(stats, trends, anomalies, keywords, days) ==
    [kind |-> "returned",
     period_days |-> days,
     insights |-> Insights(stats, trends, anomalies, keywords),
     statistics |-> stats,
     trends |-> trends,
     anomalies |-> anomalies]

--------------------------------------------------------------------------
(* Inputs of the admin summary: the results of its queries.  The queries  *)
(* are separate statements, so with requests committing in between the    *)
(* total, the distribution and the locations need not agree.              *)

DistributionRows ==
    {<<>>,
     <<[waste_type |-> "plastic", count |-> 2],
       [waste_type |-> "glass", count |-> 4]>>,
     <<[waste_type |-> "plastic", count |-> 3],
       [waste_type |-> "glass", count |-> 3]>>}

TopLocationRows ==
    {<<>>,
     <<[location |-> "A", count |-> 100], [location |-> "B", count |-> 5],
       [location |-> "C", count |-> 5], [location |-> "D", count |-> 5]>>,
     <<[location |-> "A", count |-> 5], [location |-> "B", count |-> 5]>>}

\* current_counts, previous_counts of the two periods: nothing; one type
\* rising; one rising steeply and one falling; a new type; one stable
\* and one vanished
SummaryPeriods ==
    {<<QueryResult(q[1]), QueryResult(q[2])>> :
        q \in {<<[plastic |-> 0, glass |-> 0], [plastic |-> 0, glass |-> 0]>>,
               <<[plastic |-> 6, glass |-> 0], [plastic |-> 4, glass |-> 0]>>,
               <<[plastic |-> 170, glass |-> 4], [plastic |-> 100, glass |-> 6]>>,
               <<[plastic |-> 0, glass |-> 6], [plastic |-> 0, glass |-> 0]>>,
               <<[plastic |-> 4, glass |-> 0], [plastic |-> 4, glass |-> 4]>>}}

GenerateAdminSummary(days, total, distribution_rows, location_rows, periods, order, daily, keyword_rows) ==
    /\ Idle
    /\ call' = [op |-> "generate_admin_summary", days |-> days,
                total |-> total, distribution_rows |-> distribution_rows,
                location_rows |-> location_rows,
                current_counts |-> periods[1],
                previous_counts |-> periods[2], order |-> order,
                daily_counts |-> daily, keyword_rows |-> keyword_rows]
    /\ result' =
         LET stats == get_summary_statistics(total, distribution_rows,
                                             location_rows)
         IN  IF 0 \in ChangeDivisors(order, periods[1], periods[2])
                        \cup SpikeDivisors(daily)
                        \cup AnomalyDivisors(location_rows)
                        \cup PercentageDivisors(stats)
             THEN Raised("ZeroDivisionError")
             ELSE generate_admin_summary(
                      stats,
                      analyze_trends(periods[1], periods[2], order)
                          @@ [period_days |-> days,
                              spikes |-> detect_daily_spikes(daily)],
                      detect_anomalies(location_rows, location_rows, 20),
                      get_keyword_frequency(keyword_rows, 10),
                      days)
    /\ UNCHANGED <<model, stopwords, category_embeddings, initialized,
                   init_called, incidents, created>>

NextSummary ==
    \/ Respond
    \/ \E total \in {0, 6}, distribution_rows \in DistributionRows,
          location_rows \in TopLocationRows, periods \in SummaryPeriods,
          \* no date, three level dates, MaxDays dates with a peak on the last
          daily \in {<<>>,
                     [i \in 1..3 |-> [date |-> i, count |-> 10]],
                     [i \in 1..MaxDays |->
                        [date |-> i,
                         count |-> IF i = MaxDays THEN 50 ELSE 1]]},
          keyword_rows \in {<<>>,
                            <<None, Some(<<>>)>>,
                            <<Some(<<"bottle", "bag">>), None,
                              Some(<<"bag">>)>>} :
          \E order \in Orders(DOMAIN periods[1] \cup DOMAIN periods[2]) :
             GenerateAdminSummary(7, total, distribution_rows, location_rows,
                                  periods, order, daily, keyword_rows)

SpecSummary == Init /\ [][NextSummary]_vars

--------------------------------------------------------------------------
(* detect_anomalies beside other requests                                 *)
(* The two queries of detect_anomalies are two statements of one session. *)
(* The engine is created without an isolation level (core/database.py),   *)
(* so each statement reads what is committed when it runs, and a create   *)
(* or delete request of another session may commit between the two.  A    *)
(* row of the table is here [id, location].  call.seen records the tables *)
(* the store has held since the first query.                              *)

\* The most requests that commit in one behaviour
MaxCommits == 4

\* SELECT location, count(id) FROM incidents GROUP BY location
GroupByLocation(rows) ==
    LocationRows([l \in {LocationOrder[i] : i \in 1..Len(LocationOrder)} |->
                    Len(SelectSeq(rows, LAMBDA row : row.location = l))])

\* A create request of another session commits its row
CommitCreate(location) ==
    /\ created < MaxCommits
    /\ created' = created + 1
    /\ incidents' = incidents \o <<[id |-> created + 1, location |-> location]>>
    /\ call' = IF Idle \/ call.pc = "done" THEN call
               ELSE [call EXCEPT !.seen = @ \cup {incidents'}]
    /\ UNCHANGED <<model, stopwords, category_embeddings, initialized,
                   init_called, result>>

\* A delete request of another session commits
CommitDelete(incident_id) ==
    /\ created < MaxCommits
    /\ \E i \in 1..Len(incidents) : incidents[i].id = incident_id
    /\ created' = created + 1
    /\ incidents' = SelectSeq(incidents, LAMBDA row : row.id # incident_id)
    /\ call' = IF Idle \/ call.pc = "done" THEN call
               ELSE [call EXCEPT !.seen = @ \cup {incidents'}]
    /\ UNCHANGED <<model, stopwords, category_embeddings, initialized,
                   init_called, result>>

\* detect_anomalies up to its first `await db.execute`: location_query
LocationQuery(tenths) ==
    /\ Idle
    /\ call' = [op |-> "detect_anomalies", threshold_multiplier |-> tenths,
                pc |-> "anomaly_query",
                location_rows |-> GroupByLocation(incidents),
                seen |-> {incidents}]
    /\ result' = Raised("pending")
    /\ UNCHANGED <<model, stopwords, category_embeddings, initialized,
                   init_called, incidents, created>>

\* detect_anomalies from its second `await db.execute` to its return; with
\* no location there is no second query
AnomalyQuery ==
    /\ ~Idle
    /\ call.pc = "anomaly_query"
    /\ call' = [call EXCEPT !.pc = "done"]
    /\ result' = [kind |-> "returned",
                  anomalies |-> detect_anomalies(call.location_rows,
                                    GroupByLocation(incidents),
                                    call.threshold_multiplier)]
    /\ UNCHANGED <<model, stopwords, category_embeddings, initialized,
                   init_called, incidents, created>>

RespondAnomalies ==
    /\ ~Idle
    /\ call.pc = "done"
    /\ call' = NoCall
    /\ result' = Raised("none")
    /\ UNCHANGED <<model, stopwords, category_embeddings, initialized,
                   init_called, incidents, created>>

NextRace ==
    \/ \E location \in {"A", "B"} : CommitCreate(location)
    \/ \E incident_id \in 1..MaxCommits : CommitDelete(incident_id)
    \/ \E tenths \in {10, 20} : LocationQuery(tenths)
    \/ AnomalyQuery
    \/ RespondAnomalies

SpecRace == Init /\ [][NextRace]_vars

--------------------------------------------------------------------------
(* Classifying a category's own reference description                     *)
(* The encoder is a function of the text.  The configured one             *)
(* (core/config.py AI_MODEL_NAME) ends in a normalisation layer, so an    *)
(* embedding is a unit vector; it is kept as an integer vector of its     *)
(* direction, and two embeddings are distinct exactly when their          *)
(* directions are.  The directions used have integer norms, so that a     *)
(* cosine is an exact fixed-point number.                                 *)

WASTE_CATEGORY_DESCRIPTIONS ==
    [plastic |-> "Plastic waste including bottles, bags, packaging, containers, wrappers, polythene, polyethylene, PET bottles, HDPE containers, PVC materials, straws, cups, lids, plastic film, and synthetic polymers",
     organic |-> "Organic and biodegradable waste including food scraps, kitchen waste, vegetables, fruits, compostable materials, garden waste, plant matter, banana peels, apple cores, leftovers, spoiled food, rotten produce, and natural biodegradable matter",
     paper |-> "Paper and cardboard waste including newspapers, magazines, cardboard boxes, cartons, tissue paper, documents, books, notebooks, envelopes, and paper packaging materials",
     glass |-> "Glass waste including bottles, jars, broken glass, window glass, mirrors, wine bottles, beer bottles, glassware, and glass containers",
     metal |-> "Metal waste including cans, aluminum, steel, tin, iron, copper, metal foil, wire, scrap metal, batteries with metal components, and metallic materials",
     electronic |-> "Electronic waste and e-waste including computers, phones, mobile devices, laptops, televisions, monitors, cables, chargers, batteries, appliances, electronic devices, and gadgets",
     hazardous |-> "Hazardous and toxic waste including chemicals, toxic substances, paint, oil, solvents, batteries, pesticides, medicines, pharmaceuticals, dangerous materials, flammable substances, and corrosive materials",
     textile |-> "Textile and fabric waste including clothing, fabric scraps, cloth, clothes, shirts, pants, dresses, shoes, leather items, and rags",
     construction |-> "Construction and demolition waste including concrete, bricks, wood, debris, rubble, tiles, drywall, lumber, and building materials",
     mixed |-> "Mixed and general waste including household waste, municipal waste, various types of waste, assorted waste materials, multiple waste types, and diverse waste materials"]

\* Variant that divides by 5 whatever the norms are.
cosine_similarity_Dot(a, b) == Dot(a, b) * (One \div 5)

\* sklearn cosine_similarity of two vectors, in fixed point
cosine_similarity(a, b) ==
    LET Norm(v) == CHOOSE n \in 0..5 : n * n = Dot(v, v)
    IN  IF Norm(a) * Norm(b) = 0 THEN 0
        ELSE (Dot(a, b) * One) \div (Norm(a) * Norm(b))

--------------------------------------------------------------------------
(* Inputs: encoders that give pairwise distinct embeddings to the         *)
(* reference descriptions                                                 *)

\* The encoders that embed the description of p as u, that of q as w, and
\* those of the other categories, in their order, as the fillers
ReferenceEncoders ==
    LET Directions == {<<1, 0>>, <<0, 1>>, <<3, 4>>, <<4, 3>>}
        Fillers ==
            <<<<0 - 1, 0>>, <<0, 0 - 1>>, <<0 - 3, 0 - 4>>, <<0 - 4, 0 - 3>>,
              <<0 - 3, 4>>, <<3, 0 - 4>>, <<0 - 4, 3>>, <<4, 0 - 3>>>>
        EncoderOf(p, q, u, w) ==
            [text \in {WASTE_CATEGORY_DESCRIPTIONS[c] : c \in Categories} |->
                LET c == CHOOSE d \in Categories :
                            WASTE_CATEGORY_DESCRIPTIONS[d] = text
                IN  IF c = p THEN u ELSE IF c = q THEN w
                    ELSE Fillers[Cardinality({d \in Categories \ {p, q} :
                                                Pos(d) <= Pos(c)})]]
    IN  {EncoderOf(x[1], x[2], x[3], x[4]) :
            x \in {y \in {"plastic", "glass", "mixed"} \X {"plastic", "mixed"}
                           \X Directions \X Directions :
                     y[1] # y[2] /\ y[3] # y[4]}}

\* The semantic stage of this call: the encoder gives the description's
\* embedding, the cache holds what the same encoder gave for each
\* reference description at initialize
ClassifyReference(category, encoder) ==
    LET description == WASTE_CATEGORY_DESCRIPTIONS[category]
        enc == [ok |-> TRUE,
                scores |-> [c \in Categories |->
                    cosine_similarity(encoder[description],
                        encoder[WASTE_CATEGORY_DESCRIPTIONS[c]])]]
    IN  /\ Idle
        /\ call' = [op |-> "classify_waste_type",
                    description |-> description,
                    category |-> category, encoder |-> encoder, enc |-> enc]
        /\ result' = classify_waste_type(Self, description, enc)
        /\ UNCHANGED <<model, stopwords, category_embeddings, initialized,
                       init_called, incidents, created>>

NextReference ==
    \/ Respond
    \/ \E outcome \in InitOutcomes : initialize(outcome)
    \/ \E category \in {"plastic", "glass", "mixed"},
          encoder \in ReferenceEncoders :
          ClassifyReference(category, encoder)

SpecReference == Init /\ [][NextReference]_vars

--------------------------------------------------------------------------
(* Two POST /incidents requests at the same time                          *)
(* Each request has its own session and so its own transaction (get_db).  *)
(* The handler gives up control at each await on the session; its steps   *)
(* are: flush the new row and write the AI fields into it; query the      *)
(* similar incidents; commit.  A query sees what is committed when it     *)
(* runs and the writes of its own session.  Here the AI processing        *)
(* succeeds, a row is [id, embedding, similar_incident_ids], and call     *)
(* holds the two sessions.                                                *)

Requests == {"A", "B"}

OverlapEmbeddings == {<<1, 0>>, <<4, 3>>, <<0, 1>>}

\* The store before the two requests: empty, or one earlier incident
InitOverlap ==
    /\ model = TRUE
    /\ stopwords = TRUE
    /\ category_embeddings = Categories
    /\ initialized = TRUE
    /\ init_called = TRUE
    /\ incidents \in {<<>>} \cup
          {<<[id |-> 1, embedding |-> Some(e), similar_incident_ids |-> None]>> :
              e \in OverlapEmbeddings}
    /\ created = Len(incidents)
    /\ call = [op |-> "create_incident",
               sessions |-> [r \in Requests |-> [pc |-> "none"]]]
    /\ result = Raised("none")

\* IncidentService.create_incident, process_incident and the first
\* update_ai_fields: the row is flushed within the request's transaction
FlushIncident(r, embedding) ==
    /\ call.sessions[r].pc = "none"
    /\ created' = created + 1
    /\ call' = [call EXCEPT !.sessions[r] =
                  [pc |-> "flushed",
                   row |-> [id |-> created + 1,
                            embedding |-> Some(embedding),
                            similar_incident_ids |-> None]]]
    /\ UNCHANGED <<model, stopwords, category_embeddings, initialized,
                   init_called, incidents, result>>

\* find_similar_incidents and the second update_ai_fields
FindSimilar(r) ==
    /\ call.sessions[r].pc = "flushed"
    /\ LET session == call.sessions[r]
           similar_incidents ==
               find_similar_incidents(incidents \o <<session.row>>,
                   session.row.id,
                   Value(session.row.embedding), None, 5, TRUE).ids
       IN  call' = [call EXCEPT !.sessions[r] =
                      [pc |-> "searched",
                       row |-> IF similar_incidents # <<>>
                               THEN [session.row EXCEPT
                                       !.similar_incident_ids =
                                           Some(similar_incidents)]
                               ELSE session.row]]
    /\ UNCHANGED <<model, stopwords, category_embeddings, initialized,
                   init_called, incidents, created, result>>

\* await db.commit()
CommitIncident(r) ==
    /\ call.sessions[r].pc = "searched"
    /\ incidents' = incidents \o <<call.sessions[r].row>>
    /\ call' = [call EXCEPT !.sessions[r] =
                  [pc |-> "committed", row |-> call.sessions[r].row]]
    /\ UNCHANGED <<model, stopwords, category_embeddings, initialized,
                   init_called, created, result>>

NextOverlap ==
    \/ \E r \in Requests, embedding \in OverlapEmbeddings :
          FlushIncident(r, embedding)
    \/ \E r \in Requests : FindSimilar(r)
    \/ \E r \in Requests : CommitIncident(r)

SpecOverlap == InitOverlap /\ [][NextOverlap]_vars

--------------------------------------------------------------------------
(* The classifier as the specification words it, for the last call        *)

IsClassify == call.op = "classify_waste_type"

\* Keywords of a category that occur in the lower-cased text
MatchedKeywords(category, text) ==
    LET lowered == Lower(text)
    IN  {i \in 1..Len(WASTE_CATEGORIES[category]) :
            Contains(WASTE_CATEGORIES[category][i], lowered)}

\* Words of a keyword: one more than its blanks
Words(keyword) ==
    1 + Cardinality({i \in 1..Len(keyword) : SubSeq(keyword, i, i) = " "})

RECURSIVE SumWords(_, _)
SumWords(category, S) ==
    IF S = {} THEN 0
    ELSE LET i == CHOOSE j \in S : TRUE
         IN  Words(WASTE_CATEGORIES[category][i]) + SumWords(category, S \ {i})

\* (sum of the word counts of the matched keywords) / (length of the list)
KeywordScore(category, text) ==
    (SumWords(category, MatchedKeywords(category, text)) * One)
        \div Len(WASTE_CATEGORIES[category])

Scored(text) == {c \in Categories : MatchedKeywords(c, text) # {}}

HighestKeywordScore(category, text) ==
    LET scored == Scored(text)
        score == [c \in scored |-> KeywordScore(c, text)]
    IN  /\ category \in scored
        /\ \A c \in scored : score[c] <= score[category]

\* arg-max of the similarities over the cached reference embeddings, the
\* earliest category of the corpus among equals
SemanticWinner ==
    CHOOSE c \in category_embeddings :
        \A d \in category_embeddings :
            \/ call.enc.scores[d] < call.enc.scores[c]
            \/ (call.enc.scores[d] = call.enc.scores[c] /\ Pos(c) <= Pos(d))

SemanticConfidence == call.enc.scores[SemanticWinner]

Hundredth == One \div 100

--------------------------------------------------------------------------
\* C1: on an initialised service whose encoder succeeds, a best similarity
\* of at least 0.50 makes the result the arg-max semantic category, with
\* confidence round(min(similarity + 0.2 * that category's keyword score,
\* 1.0), 2), the boost being 0 without a keyword match, whatever the other
\* categories' keyword scores are.
C1_SemanticTrusted ==
    (IsClassify /\ initialized /\ call.enc.ok
        /\ SemanticConfidence >= Milli(500))
    => /\ result.kind = "returned"
       /\ result.category = SemanticWinner
       /\ result.confidence =
            Round2(Min(SemanticConfidence
                       + (IF SemanticWinner \in Scored(call.description)
                          THEN (2 * KeywordScore(SemanticWinner,
                                                 call.description)) \div 10
                          ELSE 0),
                       One))

\* The semantic winner is returned with a keyword boost while another
\* category has a strictly higher keyword score.
C1_Witness ==
    /\ IsClassify /\ initialized /\ call.enc.ok
    /\ SemanticConfidence >= Milli(500)
    /\ result.category \in Scored(call.description)
    /\ \E c \in Scored(call.description) :
          KeywordScore(c, call.description)
            > KeywordScore(result.category, call.description)

\* The confidence of the keyword-primary branch before rounding
KeywordPrimaryValue(category, text) ==
    IF category = SemanticWinner
    THEN Min(Min(KeywordScore(category, text) * 2, One)
             + (3 * SemanticConfidence) \div 10, One)
    ELSE Min(KeywordScore(category, text) * 2, One)

LowSemantic ==
    /\ IsClassify /\ initialized /\ call.enc.ok
    /\ SemanticConfidence < Milli(500)

\* C2 (as stated): with a best similarity below 0.50 the result is the
\* category of highest keyword score with confidence min(score*2, 1.0),
\* plus 0.3 * similarity (capped at 1.0) exactly when it is the semantic
\* winner; without any keyword score it is (semantic category, similarity).
C2_KeywordPrimaryUnrounded ==
    LowSemantic
    => IF Scored(call.description) # {}
       THEN /\ HighestKeywordScore(result.category, call.description)
            /\ result.confidence * Hundredth =
                 KeywordPrimaryValue(result.category, call.description)
       ELSE /\ result.category = SemanticWinner
            /\ result.confidence * Hundredth = SemanticConfidence

\* C2 (amended): the same, the returned confidence being the value rounded
\* to two decimals in both cases.
C2_KeywordPrimaryRounded ==
    LowSemantic
    => /\ result.kind = "returned"
       /\ IF Scored(call.description) # {}
          THEN /\ HighestKeywordScore(result.category, call.description)
               /\ result.confidence =
                    Round2(KeywordPrimaryValue(result.category, call.description))
          ELSE /\ result.category = SemanticWinner
               /\ result.confidence = Round2(SemanticConfidence)

\* The keyword winner differs from the semantic winner, which has a keyword
\* score of its own, and the confidence is not a whole number of hundredths.
C2_Witness ==
    /\ LowSemantic
    /\ Scored(call.description) # {}
    /\ result.category # SemanticWinner
    /\ SemanticWinner \in Scored(call.description)
    /\ result.confidence * Hundredth #
          KeywordPrimaryValue(result.category, call.description)

\* C3: the confidence returned by classify_waste_type on an initialised
\* service lies in [0, 1] in every branch, for every text and every
\* encoder output.
C3_ConfidenceInUnitInterval ==
    (IsClassify /\ initialized /\ result.kind = "returned")
    => (0 <= result.confidence /\ result.confidence <= 100)

\* C4: on an initialised service whose encoder fails the call returns the
\* keyword-only result, (best keyword category, round(min(score*2,1.0),2)),
\* or ("unclassified", 0.0) without a keyword match; every returned category
\* is a configured one or "unclassified", and "unclassified" is returned
\* only on an encoder failure without keyword match.
C4_KeywordFallback ==
    /\ (IsClassify /\ initialized /\ ~call.enc.ok)
       => /\ result.kind = "returned"
          /\ IF Scored(call.description) = {}
             THEN result.category = "unclassified" /\ result.confidence = 0
             ELSE /\ HighestKeywordScore(result.category, call.description)
                  /\ result.confidence =
                       Round2(Min(KeywordScore(result.category,
                                               call.description) * 2, One))
    /\ (IsClassify /\ result.kind = "returned")
       => /\ result.category \in Categories \cup {"unclassified"}
          /\ (result.category = "unclassified"
              => (~call.enc.ok /\ Scored(call.description) = {}))

\* The encoder failed and a keyword category whose doubled score exceeds 1
\* was returned.
C4_Witness ==
    /\ IsClassify /\ initialized /\ ~call.enc.ok
    /\ result.category \in Categories
    /\ KeywordScore(result.category, call.description) * 2 > One

\* C5: whenever classify_waste_type returns a result, initialize has
\* completed and every configured category has a cached reference
\* embedding, also after an initialize call that raised part-way.
C5_ServedOnlyWhenInitialized ==
    (IsClassify /\ result.kind = "returned")
    => (initialized /\ category_embeddings = Categories)

\* C6: before the first initialize call, classify_waste_type and
\* generate_embedding raise the not-initialised RuntimeError; there is no
\* keyword fallback.
C6_NotInitializedRaises ==
    (~init_called /\ call.op \in {"classify_waste_type", "generate_embedding"})
    => result.kind = "RuntimeError"

\* classify_waste_type raised before any initialize although the encoder
\* outcome was a failure and the text has keyword matches.
C6_Witness ==
    /\ ~init_called /\ IsClassify
    /\ ~call.enc.ok /\ Scored(call.description) # {}
    /\ result.kind = "RuntimeError"

--------------------------------------------------------------------------
(* The similarity search as the specification words it, for the last call *)

IsFind == call.op = "find_similar_incidents"

EffectiveThreshold ==
    IF call.threshold = None THEN 75 ELSE Value(call.threshold)

HasEmbedding(i) ==
    incidents[i].embedding # None /\ Value(incidents[i].embedding) # <<>>

\* Every stored vector has the dimension of the query vector.
QueryWellFormed ==
    \A i \in 1..Len(incidents) :
        incidents[i].embedding # None
        => Len(Value(incidents[i].embedding)) = Len(call.embedding)

Row(id) == incidents[CHOOSE i \in 1..Len(incidents) : incidents[i].id = id]

SimOf(id) == CosSq(call.embedding, Value(Row(id).embedding))

\* ids of the stored incidents that qualify at threshold th
QualifiersAt(th) ==
    {incidents[i].id : i \in
        {j \in 1..Len(incidents) :
            /\ incidents[j].id # call.current_incident_id
            /\ HasEmbedding(j)
            /\ AtLeast(CosSq(call.embedding, Value(incidents[j].embedding)), th)}}

Range(seq) == {seq[i] : i \in 1..Len(seq)}

\* C7: when the fetch and the similarities succeed, the result is the
\* first `limit` of the qualifying incidents (embedding present, id other
\* than current_id, similarity >= threshold, 0.75 when omitted) in
\* descending score order: it has min(limit, number of qualifiers) distinct
\* elements, all qualifiers, never the excluded id, scores not increasing,
\* and no omitted qualifier scores strictly higher than a returned one.
C7_TopQualifiers ==
    (IsFind /\ call.fetch_ok /\ QueryWellFormed)
    => LET ids == result.ids
           Q == QualifiersAt(EffectiveThreshold)
       IN  /\ result.kind = "returned"
           /\ Len(ids) = Min(call.limit, Cardinality(Q))
           /\ Range(ids) \subseteq Q
           /\ call.current_incident_id \notin Range(ids)
           /\ \A k, l \in 1..Len(ids) :
                 k < l => /\ ids[k] # ids[l]
                          /\ ~Greater(SimOf(ids[l]), SimOf(ids[k]))
           /\ \A q \in Q \ Range(ids) : \A k \in 1..Len(ids) :
                 ~Greater(SimOf(q), SimOf(ids[k]))

\* The threshold is omitted, more incidents qualify than the limit allows,
\* and the excluded incident itself is stored with a similarity above the
\* threshold.
C7_Witness ==
    /\ IsFind /\ call.fetch_ok /\ QueryWellFormed
    /\ call.threshold = None
    /\ Cardinality(QualifiersAt(75)) > call.limit
    /\ \E i \in 1..Len(incidents) :
          /\ incidents[i].id = call.current_incident_id
          /\ HasEmbedding(i)
          /\ AtLeast(CosSq(call.embedding, Value(incidents[i].embedding)), 75)

SameCallAt(threshold) ==
    find_similar_incidents(incidents, call.current_incident_id,
                           call.embedding, threshold, call.limit,
                           call.fetch_ok)

ThresholdValue(threshold) ==
    IF threshold = None THEN 75 ELSE Value(threshold)

\* C8: for the same table, query, excluded id and limit, every incident
\* returned at a threshold is also returned at any lower threshold.
C8_ThresholdMonotone ==
    IsFind
    => \A t \in Thresholds :
          /\ ThresholdValue(t) < EffectiveThreshold
             => Range(result.ids) \subseteq Range(SameCallAt(t).ids)
          /\ ThresholdValue(t) > EffectiveThreshold
             => Range(SameCallAt(t).ids) \subseteq Range(result.ids)

\* A non-empty result at 0.9 while at 0.5 more incidents qualify than the
\* limit allows and more are returned.
C8_Witness ==
    /\ IsFind /\ call.fetch_ok /\ QueryWellFormed
    /\ call.threshold = Some(90)
    /\ result.ids # <<>>
    /\ Cardinality(QualifiersAt(50)) > call.limit
    /\ Len(SameCallAt(Some(50)).ids) > Len(result.ids)

\* C9: find_similar_incidents never raises: it returns the empty list for
\* an empty corpus, when nothing reaches the threshold, and when the fetch
\* or a similarity fails (a query vector of the wrong dimension).
C9_NeverRaises ==
    IsFind
    => /\ result.kind = "returned"
       /\ ~call.fetch_ok => result.ids = <<>>
       /\ ~QueryWellFormed => result.ids = <<>>
       /\ (\A i \in 1..Len(incidents) : ~HasEmbedding(i)) => result.ids = <<>>
       /\ (call.fetch_ok /\ QueryWellFormed
             /\ QualifiersAt(EffectiveThreshold) = {})
          => (result.ids = <<>> /\ ~result.failed)

\* The fetch succeeded, a candidate other than the excluded one is stored,
\* the query vector has the wrong dimension, and the empty list came back.
C9_Witness ==
    /\ IsFind /\ call.fetch_ok /\ ~QueryWellFormed
    /\ \E i \in 1..Len(incidents) :
          incidents[i].id # call.current_incident_id /\ HasEmbedding(i)
    /\ result.kind = "returned" /\ result.ids = <<>> /\ result.failed

--------------------------------------------------------------------------
(* The trend classification as the specification words it                 *)

IsTrends == call.op = "analyze_trends"

InList(list, waste_type) ==
    \E i \in 1..Len(list) : list[i].waste_type = waste_type

ItemOf(list, waste_type) ==
    list[CHOOSE i \in 1..Len(list) : list[i].waste_type = waste_type]

\* C10: every category with previous > 0 gets one record, whose change
\* percentage is (current - previous) / previous * 100 (to the nearest
\* tenth), placed in rising iff change > 20, in falling iff change < -20,
\* in stable otherwise: exactly +20% or -20% is stable, current = 0 is
\* falling at -100%.
C10_TrendClassification ==
    IsTrends
    => \A t \in DOMAIN call.previous_counts :
          LET p == call.previous_counts[t]
              c == Get(call.current_counts, t)
              rising == InList(result.rising_trends, t)
              falling == InList(result.falling_trends, t)
              stable == InList(result.stable_trends, t)
              item == IF rising THEN ItemOf(result.rising_trends, t)
                      ELSE IF falling THEN ItemOf(result.falling_trends, t)
                      ELSE ItemOf(result.stable_trends, t)
          IN  /\ rising <=> (c - p) * 100 > 20 * p
              /\ falling <=> (c - p) * 100 < (0 - 20) * p
              /\ stable <=> ~((c - p) * 100 > 20 * p)
                            /\ ~((c - p) * 100 < (0 - 20) * p)
              /\ item.current_count = c /\ item.previous_count = p
              /\ 2 * Abs(item.change_percentage * p - (c - p) * 1000) <= p
              /\ (c = 0 => falling /\ item.change_percentage = 0 - 1000)
              /\ (p = 100 /\ c = 125
                    => rising /\ item.change_percentage = 250)
              /\ (p = 100 /\ c = 170
                    => rising /\ item.change_percentage = 700)

\* One category at exactly +20% is stable while another, with no current
\* incident, is falling.
C10_Witness ==
    /\ IsTrends
    /\ \E t, u \in DOMAIN call.previous_counts :
          /\ (Get(call.current_counts, t) - call.previous_counts[t]) * 100
                = 20 * call.previous_counts[t]
          /\ InList(result.stable_trends, t)
          /\ Get(call.current_counts, u) = 0
          /\ InList(result.falling_trends, u)

\* The records of the three lists of categories seen in the previous period.
TrendRecords ==
    Range(result.rising_trends) \cup Range(result.falling_trends)
        \cup Range(result.stable_trends)

\* C11: every record of a category with previous > 0, rising, falling and
\* stable alike, carries a severity, "high" when the absolute change
\* percentage exceeds 50 and "medium" otherwise.
C11_SeverityOnEveryRecord ==
    IsTrends
    => \A item \in TrendRecords :
          /\ "severity" \in DOMAIN item
          /\ item.severity
                = IF Abs(item.current_count - item.previous_count) * 100
                        > 50 * item.previous_count
                  THEN "high" ELSE "medium"

\* How many of the lists of a result hold a record of the category.
ListsHolding(t) ==
    Cardinality({i \in 1..Len(result.rising_trends) :
                    result.rising_trends[i].waste_type = t})
    + Cardinality({i \in 1..Len(result.falling_trends) :
                    result.falling_trends[i].waste_type = t})
    + Cardinality({i \in 1..Len(result.stable_trends) :
                    result.stable_trends[i].waste_type = t})
    + Cardinality({i \in 1..Len(result.new_waste_types) :
                    result.new_waste_types[i].waste_type = t})

\* C12: a category with an incident in either period is in exactly one of
\* the four lists, in the new list iff previous = 0 and current > 0 (its
\* record then has no change percentage); a category with no incident in
\* either period is in none; total_waste_types is the sum of the three
\* summary counts and the length of the new list.
C12_TrendPartition ==
    IsTrends
    => /\ \A t \in TrendTypes :
            LET c == Get(call.current_counts, t)
                p == Get(call.previous_counts, t)
            IN  /\ ListsHolding(t) = IF c > 0 \/ p > 0 THEN 1 ELSE 0
                /\ InList(result.new_waste_types, t) <=> (p = 0 /\ c > 0)
                /\ InList(result.new_waste_types, t)
                     => "change_percentage" \notin
                            DOMAIN ItemOf(result.new_waste_types, t)
       /\ result.summary.trending_up = Len(result.rising_trends)
       /\ result.summary.trending_down = Len(result.falling_trends)
       /\ result.summary.stable = Len(result.stable_trends)
       /\ result.summary.total_waste_types
            = result.summary.trending_up + result.summary.trending_down
              + result.summary.stable + Len(result.new_waste_types)

\* One category is new while the other, seen before, has no incident in
\* the current period, and the total counts both.
C12_Witness ==
    /\ IsTrends
    /\ \E t, u \in TrendTypes :
          /\ Get(call.previous_counts, t) = 0
          /\ InList(result.new_waste_types, t)
          /\ Get(call.previous_counts, u) > 0
          /\ Get(call.current_counts, u) = 0
          /\ InList(result.falling_trends, u)
          /\ result.summary.total_waste_types = 2

--------------------------------------------------------------------------
(* The spike detection as the specification words it                      *)

IsSpikes == call.op = "_detect_daily_spikes"

\* n * sum of squares - (sum)^2: the population variance, times n^2
PopulationVariance(counts) ==
    LET Sq(i) == counts[i] * counts[i]
        SumSq[i \in 0..Len(counts)] ==
            IF i = 0 THEN 0 ELSE SumSq[i - 1] + Sq(i)
        sum == SumCounts(counts)
    IN  Len(counts) * SumSq[Len(counts)] - sum * sum

\* count > mean + (halves / 2) * standard deviation, for n counts of the
\* given sum and variance (times n^2)
Exceeds(count, n, sum, variance, halves) ==
    LET d == n * count - sum
    IN  d > 0 /\ 4 * d * d > halves * halves * variance

\* C14: with fewer than 3 dates the result is empty; otherwise it holds
\* exactly the dates whose count is strictly greater than mean + 2.5 *
\* population standard deviation of the daily counts, each with its count
\* and severity "high" iff the count exceeds mean + 4 * standard deviation
\* (else "medium"), in ascending date order.
C14_DailySpikes ==
    IsSpikes
    => LET daily == call.daily_counts
           counts == CountsOf(daily)
           spikes == result.spikes
           n == Len(daily)
           sum == SumCounts(counts)
           pv == PopulationVariance(counts)
           flagged == {i \in 1..n : n >= 3 /\ Exceeds(counts[i], n, sum, pv, 5)}
       IN  /\ result.kind = "returned"
           /\ n < 3 => spikes = <<>>
           /\ {spikes[j].date : j \in 1..Len(spikes)}
                = {daily[i].date : i \in flagged}
           /\ Len(spikes) = Cardinality(flagged)
           /\ \A j \in 1..Len(spikes) : \A k \in 1..Len(spikes) :
                 j < k => spikes[j].date < spikes[k].date
           /\ \A j \in 1..Len(spikes) :
                 \E i \in flagged :
                    /\ spikes[j].date = daily[i].date
                    /\ spikes[j].count = daily[i].count
                    /\ spikes[j].severity
                         = IF Exceeds(counts[i], n, sum, pv, 8)
                           THEN "high" ELSE "medium"

\* Two peak dates among fifteen or more are both flagged, "medium", the
\* earlier one first.
C14_Witness ==
    /\ IsSpikes
    /\ Len(call.daily_counts) >= 3
    /\ Len(result.spikes) = 2
    /\ result.spikes[1].severity = "medium"
    /\ result.spikes[1].date < result.spikes[2].date

\* Six dates with 10 incidents each and a seventh with 50
SevenDays ==
    [i \in 1..7 |-> [date |-> i, count |-> IF i = 7 THEN 50 ELSE 10]]

\* C15 as stated: for the seven daily counts 10, 10, 10, 10, 10, 10, 50 the
\* date with 50 incidents is flagged as a spike.
C15_FiftyFlagged ==
    IsSpikes /\ call.daily_counts = SevenDays
    => \E j \in 1..Len(result.spikes) :
          result.spikes[j].date = 7 /\ result.spikes[j].count = 50

\* C15, amended: for the seven daily counts 10, 10, 10, 10, 10, 10, 50 no
\* date is flagged, because 50 does not exceed mean + 2.5 * population
\* standard deviation of those counts (110/7 + 2.5 * 14.0 = 50.7).
C15_FiftyNotFlagged ==
    IsSpikes /\ call.daily_counts = SevenDays
    => /\ result.spikes = <<>>
       /\ ~Exceeds(50, 7, 110, PopulationVariance(CountsOf(SevenDays)), 5)
       /\ PopulationVariance(CountsOf(SevenDays)) = 9600

\* The spike detection has answered for those seven daily counts.
C15_Witness ==
    /\ IsSpikes
    /\ call.daily_counts = SevenDays
    /\ result.kind = "returned"
    /\ Len(result.spikes) = 0

--------------------------------------------------------------------------
(* The periods of the trend analysis as the specification words them      *)

IsTrendAnalysis == call.op = "analyze_trends" /\ "now" \in DOMAIN call

\* The stored incidents of a category whose timestamp satisfies Within
Counted(t, Within(_)) ==
    {i \in 1..Len(incidents) :
        /\ incidents[i].waste_type = Some(t)
        /\ Within(incidents[i].timestamp)}

\* C13: with the period length in ticks and the clock at now, a stored
\* incident is counted in the current period iff its category is set and
\* now - days <= timestamp <= now, in the previous period iff its category
\* is set and now - 2 days <= timestamp < now - days; an incident without
\* a category is counted in neither, and no incident is counted in both.
C13_Periods ==
    IsTrendAnalysis
    => LET len == call.days * TicksPerDay
           Current(ts) == call.now - len <= ts /\ ts <= call.now
           Previous(ts) == call.now - 2 * len <= ts /\ ts < call.now - len
       IN  /\ \A t \in TrendTypes :
                /\ Get(call.current_counts, t)
                     = Cardinality(Counted(t, Current))
                /\ Get(call.previous_counts, t)
                     = Cardinality(Counted(t, Previous))
                /\ Counted(t, Current) \cap Counted(t, Previous) = {}
           /\ DOMAIN call.current_counts \subseteq TrendTypes
           /\ DOMAIN call.previous_counts \subseteq TrendTypes
           /\ result.summary.total_waste_types
                = Cardinality({t \in TrendTypes :
                      Counted(t, Current) \cup Counted(t, Previous) # {}})

\* An incident stamped exactly at the start of the current period is
\* counted in the current period only, next to an incident without a
\* category and one from the future that are counted nowhere.
C13_Witness ==
    /\ IsTrendAnalysis
    /\ \E i, j, k \in 1..Len(incidents) :
          /\ incidents[i].timestamp = call.now - call.days * TicksPerDay
          /\ incidents[i].waste_type = Some("glass")
          /\ call.current_counts = [glass |-> 1]
          /\ call.previous_counts = <<>>
          /\ incidents[j].waste_type = None
          /\ incidents[j].timestamp < call.now - call.days * TicksPerDay
          /\ incidents[k].timestamp > call.now
          /\ incidents[k].waste_type = Some("glass")

--------------------------------------------------------------------------
(* The anomaly detection as the specification words it                    *)

IsAnomalies == call.op = "detect_anomalies"

\* C16: with at least one incident, detect_anomalies(multiplier) returns
\* exactly the locations whose incident count is strictly greater than the
\* mean per-location count times the multiplier, with severity "high" iff
\* the count exceeds 1.5 times that threshold (else "medium"); with no
\* incident it returns the empty list.  For counts A:5, B:5, C:5, D:40 and
\* multiplier 2 the only anomaly is D, with mean 13.75, threshold 27.5 and
\* severity "medium".
C16_Anomalies ==
    IsAnomalies
    => LET counts == call.counts
           m == call.threshold_multiplier
           present == {l \in DOMAIN counts : counts[l] > 0}
           n == Cardinality(present)
           total == counts["A"] + counts["B"] + counts["C"] + counts["D"]
           anomalous == {l \in present : 10 * n * counts[l] > total * m}
           found == result.anomalies
       IN  /\ result.kind = "returned"
           /\ present = {} => found = <<>>
           /\ {found[i].location : i \in 1..Len(found)} = anomalous
           /\ Len(found) = Cardinality(anomalous)
           /\ \A i \in 1..Len(found) :
                 /\ found[i].count = counts[found[i].location]
                 /\ found[i].severity
                      = IF 20 * n * found[i].count > 3 * total * m
                        THEN "high" ELSE "medium"
           /\ (counts = [A |-> 5, B |-> 5, C |-> 5, D |-> 40] /\ m = 20)
                => found = <<[location |-> "D", count |-> 40, mean |-> 1375,
                              threshold |-> 2750, severity |-> "medium"]>>

\* Two locations exceed the threshold, one of them by more than half.
C16_Witness ==
    /\ IsAnomalies
    /\ \E i, j \in 1..Len(result.anomalies) :
          /\ result.anomalies[i].severity = "high"
          /\ result.anomalies[j].severity = "medium"

--------------------------------------------------------------------------
(* The keyword extraction as the specification words it                   *)

IsKeywords == call.op = "extract_keywords"

\* word occurs in the lower-cased text with no letter right before or
\* right after it
IsWordOf(word, text) ==
    LET lowered == Lower(text)
        n == Len(word)
    IN  \E p \in 1..Len(lowered) :
           /\ p + n - 1 <= Len(lowered)
           /\ SubSeq(lowered, p, p + n - 1) = word
           /\ p > 1 => SubSeq(lowered, p - 1, p - 1) \notin Letters
           /\ p + n <= Len(lowered)
                => SubSeq(lowered, p + n, p + n) \notin Letters

\* C19: on an initialised service extract_keywords(text, top_n) returns
\* (never raises) at most top_n items without duplicates, each a
\* lower-cased, purely alphabetic word of the text of length >= 3 that is
\* not an English stopword; the empty text yields the empty list.
C19_KeywordsFiltered ==
    IsKeywords /\ initialized
    => LET kws == result.keywords
       IN  /\ result.kind = "returned"
           /\ Len(kws) <= call.top_n
           /\ \A i \in 1..Len(kws) : \A j \in 1..Len(kws) :
                 i # j => kws[i] # kws[j]
           /\ \A i \in 1..Len(kws) :
                 /\ \A p \in 1..Len(kws[i]) :
                       SubSeq(kws[i], p, p) \in Letters
                 /\ Len(kws[i]) >= 3
                 /\ kws[i] \notin ENGLISH_STOPWORDS
                 /\ IsWordOf(kws[i], call.description)
           /\ call.description = "" => kws = <<>>

\* From a text with stopwords, two-letter words, a number and a hyphenated
\* word the initialised service keeps just "old" and "sets".
C19_Witness ==
    /\ IsKeywords
    /\ initialized
    /\ call.description = "E-waste: 3 old TV sets and a PC!"
    /\ call.top_n = 3
    /\ result.keywords = <<"old", "sets">>

\* The kept tokens of the last call, by the service's present stopwords
KeptTokens ==
    SelectSeq(word_tokenize(Lower(call.description)),
              LAMBDA word : KeepToken(Self, word))

Frequency(word) ==
    Cardinality({p \in 1..Len(KeptTokens) : KeptTokens[p] = word})

FirstSeen(word) ==
    CHOOSE p \in 1..Len(KeptTokens) :
        /\ KeptTokens[p] = word
        /\ \A q \in 1..(p - 1) : KeptTokens[q] # word

\* a ranks before b
RanksBefore(a, b) ==
    \/ Frequency(a) > Frequency(b)
    \/ Frequency(a) = Frequency(b) /\ FirstSeen(a) < FirstSeen(b)

\* C20: the result lists kept tokens by descending frequency, tokens of
\* equal frequency in order of first occurrence, and is the first top_n
\* entries of that order: a kept token that is left out ranks behind every
\* returned one, and is left out only when top_n items are returned.
C20_KeywordsOrdered ==
    IsKeywords /\ call.tokenizer_ok
    => LET kws == result.keywords
           kept == Range(KeptTokens)
       IN  /\ Range(kws) \subseteq kept
           /\ \A i \in 1..Len(kws) : \A j \in 1..Len(kws) :
                 i < j => RanksBefore(kws[i], kws[j])
           /\ \A w \in kept \ Range(kws) :
                 /\ Len(kws) = call.top_n
                 /\ \A i \in 1..Len(kws) : RanksBefore(kws[i], w)

\* Of four kept words, two of them seen twice, the first three are
\* returned: the two frequent ones, then the earliest of the others.
C20_Witness ==
    /\ IsKeywords
    /\ call.description = "bag glass glass bottle bottle tin"
    /\ call.top_n = 3
    /\ result.keywords = <<"glass", "bottle", "bag">>

--------------------------------------------------------------------------
(* The incident requests as the specification words them                  *)

\* The computed fields of a row
AIFields(row) ==
    <<row.waste_type, row.waste_type_confidence, row.embedding,
      row.keywords, row.similar_incident_ids>>

Ids(rows) == {rows[i].id : i \in 1..Len(rows)}

RowOf(rows, id) == rows[CHOOSE i \in 1..Len(rows) : rows[i].id = id]

\* C17: an update request, whatever fields it sets, leaves the waste_type,
\* waste_type_confidence, embedding, keywords and similar_incident_ids of
\* every stored incident as they were and stores or removes no incident;
\* an update or a delete of an id that is not stored changes no stored
\* incident; in every step an incident that stays stored keeps its
\* computed fields, which are written only by update_ai_fields while the
\* incident is created.
C17_EditFrame ==
    [][/\ \A id \in Ids(incidents) \cap Ids(incidents') :
             AIFields(RowOf(incidents', id)) = AIFields(RowOf(incidents, id))
       /\ call'.op = "update_incident"
            => /\ Ids(incidents') = Ids(incidents)
               /\ Len(incidents') = Len(incidents)
               /\ \A id \in Ids(incidents) \ {call'.incident_id} :
                     RowOf(incidents', id) = RowOf(incidents, id)
               /\ \A id \in Ids(incidents) \cap {call'.incident_id} :
                     \A field \in DOMAIN call'.update_data :
                        RowOf(incidents', id)[field]
                            = call'.update_data[field]
       /\ (call'.op \in {"update_incident", "delete_incident"}
           /\ call'.incident_id \notin Ids(incidents))
            => incidents' = incidents
       /\ call'.op = "delete_incident"
            => Ids(incidents') = Ids(incidents) \ {call'.incident_id}
      ]_vars

\* An incident classified from its first description has had description,
\* location and coordinates edited and still carries the keywords of the
\* first description, and a second incident still lists it as similar.
C17_Witness ==
    /\ call.op = "update_incident"
    /\ result.kind = "returned"
    /\ DOMAIN call.update_data
         = {"description", "location", "latitude", "longitude"}
    /\ \E i, j \in 1..Len(incidents) :
          /\ incidents[i].id = call.incident_id
          /\ incidents[i].description = "broken glass near school"
          /\ incidents[i].latitude = Some(1)
          /\ incidents[i].waste_type = Some("plastic")
          /\ incidents[i].keywords = Some(<<"plastic", "bottle", "dumped">>)
          /\ incidents[j].similar_incident_ids = Some(<<call.incident_id>>)

\* C18: every stored incident has waste_type, confidence, keywords and
\* embedding set, after any sequence of create, update and delete
\* requests; a creation whose AI processing failed (initialize raised, or
\* the encoder raised while the embedding was generated) was answered with
\* an error and stored no incident.
C18_CreatedIncidentsProcessed ==
    /\ \A i \in 1..Len(incidents) :
          /\ incidents[i].waste_type # None
          /\ incidents[i].waste_type_confidence # None
          /\ incidents[i].keywords # None
          /\ incidents[i].embedding # None
    /\ (call.op = "create_incident" /\ call.ai_failed)
         => /\ result.kind = "HTTP 500"
            /\ call.incident_id \notin Ids(incidents)
            /\ Len(incidents) <= created
    /\ Cardinality(Ids(incidents)) = Len(incidents)
    /\ Len(incidents) <= created

\* A creation has just failed in its AI processing next to an incident
\* stored by an earlier creation whose classifier fell back to keywords.
C18_Witness ==
    /\ call.op = "create_incident"
    /\ call.ai_failed
    /\ initialized
    /\ Len(incidents) = 1
    /\ incidents[1].waste_type # None
    /\ incidents[1].keywords = Some(<<>>)

--------------------------------------------------------------------------
(* The admin summary as the specification words it                        *)

IsSummary == call.op = "generate_admin_summary" /\ result.kind = "returned"

InsightOrder ==
    <<"overview", "trend_rising", "trend_falling", "new_category", "spike",
      "hotspot", "dominant_type", "keywords", "location">>

\* The data each insight type reports on is there
HasData(type) ==
    CASE type = "overview" -> result.statistics.total_incidents > 0
      [] type = "trend_rising" -> result.trends.rising_trends # <<>>
      [] type = "trend_falling" -> result.trends.falling_trends # <<>>
      [] type = "new_category" -> result.trends.new_waste_types # <<>>
      [] type = "spike" -> result.trends.spikes # <<>>
      [] type = "hotspot" -> result.anomalies # <<>>
      [] type = "dominant_type" ->
            result.statistics.waste_type_distribution # <<>>
      [] type = "keywords" ->
            get_keyword_frequency(call.keyword_rows, 10) # <<>>
      [] type = "location" -> result.statistics.top_locations # <<>>

PlaceOf(type) == CHOOSE i \in 1..Len(InsightOrder) : InsightOrder[i] = type

\* C21: the insights of the admin summary are a subsequence of the fixed
\* order overview, trend_rising, trend_falling, new_category, spike,
\* hotspot, dominant_type, keywords, location: every type is one of the
\* nine, the places strictly increase along the list (so no type occurs
\* twice), and a type is in the list exactly when its data is non-empty.
C21_InsightOrder ==
    IsSummary =>
        LET insights == result.insights
        IN  /\ \A i \in 1..Len(insights) :
                  insights[i].type \in Range(InsightOrder)
            /\ \A i \in 1..Len(insights) : \A j \in 1..Len(insights) :
                  i < j => PlaceOf(insights[i].type) < PlaceOf(insights[j].type)
            /\ \A type \in Range(InsightOrder) :
                  (\E i \in 1..Len(insights) : insights[i].type = type)
                      <=> HasData(type)

\* A summary with a spike and a hotspot but neither a new category nor
\* keywords: seven insights with the spike right before the hotspot
C21_Witness ==
    /\ IsSummary
    /\ Len(result.insights) = 7
    /\ \E i \in 1..6 : /\ result.insights[i].type = "spike"
                       /\ result.insights[i + 1].type = "hotspot"
    /\ ~HasData("new_category")
    /\ ~HasData("keywords")

--------------------------------------------------------------------------
(* The singleton as the specification words it                            *)

\* C22: once initialize has succeeded, no step changes the service: the
\* initialized flag stays set and the encoder handle, the stopword set and
\* the category reference embeddings stay what they are, whichever
\* operation, initialize and AIService() included, is called.
C22_InitializedOnce ==
    [][initialized =>
          /\ initialized'
          /\ model' = model
          /\ stopwords' = stopwords
          /\ category_embeddings' = category_embeddings]_vars

\* initialize has been called on the initialised service with resources
\* that would have failed to load, and has returned without loading
C22_Witness ==
    /\ initialized
    /\ call.op = "initialize"
    /\ call.outcome.stage # "done"
    /\ result.kind = "returned"
    /\ model /\ stopwords
    /\ category_embeddings = Categories

--------------------------------------------------------------------------
(* detect_anomalies beside other requests as the specification words it   *)

\* C23: the anomalies detect_anomalies returns (locations, counts, mean,
\* threshold, severity) are those of the anomaly rule applied to one of
\* the tables the store has held between the first query and the return.
C23_AnomaliesOfOneState ==
    (call.op = "detect_anomalies" /\ call.pc = "done") =>
        \E table \in call.seen :
            result.anomalies =
                detect_anomalies(GroupByLocation(table), GroupByLocation(table),
                                 call.threshold_multiplier)

--------------------------------------------------------------------------
(* The divisions of the analytics as the specification words them         *)

IsSummaryCall == call.op = "generate_admin_summary"

\* The insights of the given type
InsightsOf(type) ==
    SelectSeq(result.insights, LAMBDA insight : insight.type = type)

\* C24: the admin summary, and with it analyze_trends,
\* _detect_daily_spikes and detect_anomalies which it calls, never divides
\* by zero: the call returns; a type without incident in the previous
\* period is reported as new and has no change record; without location
\* there is no anomaly, with fewer than 3 dates no spike; and with a total
\* of 0 the percentage of the dominant type is 0.
C24_NoDivisionByZero ==
    IsSummaryCall =>
        /\ result.kind = "returned"
        /\ \A t \in Range(call.order) :
              Get(call.previous_counts, t) = 0 =>
                 /\ \E i \in 1..Len(result.trends.new_waste_types) :
                       result.trends.new_waste_types[i].waste_type = t
                 /\ \A list \in {result.trends.rising_trends,
                                 result.trends.falling_trends,
                                 result.trends.stable_trends} :
                       \A i \in 1..Len(list) : list[i].waste_type # t
        /\ call.location_rows = <<>> => result.anomalies = <<>>
        /\ Len(call.daily_counts) < 3 => result.trends.spikes = <<>>
        /\ (call.total = 0 /\ call.distribution_rows # <<>>) =>
              InsightsOf("dominant_type")[1].data[1].percentage = 0

\* A summary over a store with a new type, no location, no date with an
\* incident, and a total of 0 beside a distribution that has a type
C24_Witness ==
    /\ IsSummaryCall
    /\ result.kind = "returned"
    /\ \E t \in Range(call.order) :
          Get(call.previous_counts, t) = 0 /\ Get(call.current_counts, t) > 0
    /\ call.location_rows = <<>>
    /\ call.daily_counts = <<>>
    /\ call.total = 0
    /\ InsightsOf("dominant_type") # <<>>
    /\ InsightsOf("dominant_type")[1].data[1].percentage = 0

--------------------------------------------------------------------------
(* The reference descriptions as the specification words them             *)

IsReferenceCall ==
    /\ call.op = "classify_waste_type"
    /\ "encoder" \in DOMAIN call

--------------------------------------------------------------------------
(* The order of the trend lists as the specification words it             *)

NonIncreasingChange(list) ==
    \A i \in 1..Len(list) : \A j \in 1..Len(list) :
        i < j => Abs(list[i].change_percentage) >= Abs(list[j].change_percentage)

\* C26: rising_trends and falling_trends are each in the order of
\* non-increasing absolute change percentage, so that the first record of
\* a list has the largest absolute change of the list.
C26_TrendsByChange ==
    (call.op = "analyze_trends" /\ result.kind = "returned") =>
        /\ NonIncreasingChange(result.rising_trends)
        /\ NonIncreasingChange(result.falling_trends)
        /\ \A list \in {result.rising_trends, result.falling_trends} :
              \A i \in 1..Len(list) :
                 Abs(list[1].change_percentage) >= Abs(list[i].change_percentage)

\* Two rising types, the one the loop met first having the smaller change
C26_Witness ==
    /\ call.op = "analyze_trends"
    /\ result.kind = "returned"
    /\ Len(result.rising_trends) = 2
    /\ result.rising_trends[2].waste_type = call.order[1]
    /\ result.rising_trends[1].change_percentage
          > result.rising_trends[2].change_percentage

--------------------------------------------------------------------------
(* The stored similar incidents as the specification words them           *)

\* C27: every id in the similar_incident_ids of a stored incident is the
\* id of another incident that is in the store.
C27_SimilarIdsExist ==
    \A i \in 1..Len(incidents) :
        incidents[i].similar_incident_ids # None =>
            \A id \in Range(Value(incidents[i].similar_incident_ids)) :
                /\ id # incidents[i].id
                /\ \E j \in 1..Len(incidents) : incidents[j].id = id

--------------------------------------------------------------------------
(* Two creations at the same time as the specification words them         *)

BothCommitted ==
    /\ call.op = "create_incident"
    /\ "sessions" \in DOMAIN call
    /\ \A r \in Requests : call.sessions[r].pc = "committed"

\* The stored incident a request has created
Stored(r) ==
    incidents[CHOOSE i \in 1..Len(incidents) :
                incidents[i].id = call.sessions[r].row.id]

Lists(row, id) ==
    /\ row.similar_incident_ids # None
    /\ id \in Range(Value(row.similar_incident_ids))

\* C28: once two creation requests whose embeddings have a cosine
\* similarity of at least the global threshold have both committed, at
\* least one of the two stored incidents lists the other in its
\* similar_incident_ids (the store holding fewer than 5 other incidents).
C28_DuplicateNotLost ==
    (/\ BothCommitted
     /\ AtLeast(CosSq(Value(Stored("A").embedding),
                      Value(Stored("B").embedding)), SIMILARITY_THRESHOLD))
    => \/ Lists(Stored("A"), Stored("B").id)
       \/ Lists(Stored("B"), Stored("A").id)

--------------------------------------------------------------------------
(* The spikes of a week as the specification words them                   *)

\* C29: in a list of 3 to 7 daily counts no count is strictly greater
\* than the mean plus 2.5 population standard deviations of the list, and
\* for a query result of at most 7 dates _detect_daily_spikes returns the
\* empty list.
C29_NoSpikeInAWeek ==
    (IsSpikes /\ Len(call.daily_counts) <= 7)
    => LET counts == CountsOf(call.daily_counts)
           n == Len(counts)
       IN  /\ n >= 3 =>
                \A i \in 1..n :
                   ~Exceeds(counts[i], n, SumCounts(counts),
                            PopulationVariance(counts), 5)
           /\ result.kind = "returned"
           /\ result.spikes = <<>>

\* Seven dates, six with 1 incident and one with 50, and no spike
C29_Witness ==
    /\ IsSpikes
    /\ Len(call.daily_counts) = 7
    /\ Cardinality({i \in 1..7 : call.daily_counts[i].count = 1}) = 6
    /\ Cardinality({i \in 1..7 : call.daily_counts[i].count = 50}) = 1
    /\ result.spikes = <<>>

--------------------------------------------------------------------------
(* The stopwords as the specification words them                          *)

\* C30: whenever extract_keywords returns, whether or not initialize has
\* run before the call, none of the returned words is on the English
\* stopword list.
C30_NoStopwordReturned ==
    IsKeywords =>
        \A i \in 1..Len(result.keywords) :
            result.keywords[i] \notin ENGLISH_STOPWORDS

====
